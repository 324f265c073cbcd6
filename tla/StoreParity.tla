---------------------------- MODULE StoreParity ----------------------------
(* The two implementations of the repositories: the in-memory arrays and    *)
(* maps of lib/db/memory.ts, on which the tests run, and the Postgres       *)
(* tables behind lib/db/prisma/repositories.ts, on which the product runs.  *)
(* Both are given the same calls, in the same order, and their answers and  *)
(* everything that can be read back are compared; of a row, what the        *)
(* callers decide on is kept. One repository is exercised in a behaviour.   *)
(* Calls are those the callers make: one tenant registers a hostname and    *)
(* hosts a slug once (they look first). Left out are two tenants who want   *)
(* one hostname, which the database alone refuses, and usage.append, which  *)
(* nothing calls.                                                           *)
EXTENDS Integers, Sequences, SequencesExt, FiniteSets

CONSTANTS Tenants,
          MaxCalls   \* bound: calls

Undefined == "undefined"
Null == "null"
Keys == {"k1", "k2"}
Coalesce(x, y) == IF x \in {Undefined, Null} THEN y ELSE x   \* x ?? y
Kept(x, y) == IF x = Undefined THEN y ELSE x

Tables == {"domains", "localListings", "products", "whatsappOrders", "siteRepos",
           "deployments", "hostingDeployments", "provisioningJobs", "agentJobs", "audit"}
Upserted == {"adapterConnections", "subscriptions", "invoices", "agentPolicies", "businesses"}
Reliability == {"approvals", "operations", "webhookEvents"}
Repos == Tables \cup Upserted \cup Reliability \cup {"sites", "leads", "wallet"}

VARIABLES
  repo,      \* the repository under comparison
  memory,    \* its arrays
  database,  \* its tables: sets of rows, in no order but their creation's
  answers,   \* what the last call answered, by each
  calls      \* calls made: also the creation stamp and the id of the next row

vars == <<repo, memory, database, answers, calls>>

-----------------------------------------------------------------------------
(* Rows, and what a call finds among them.                                  *)

Row(id, tenant, key, value, ref) ==
  [id |-> id, tenant |-> tenant, key |-> key, value |-> value, ref |-> ref]

Outcome(store, answer) == [store |-> store, answer |-> <<"done", answer>>]
Refused(store) == [store |-> store, answer |-> <<"refused">>]

Find(array, Test(_)) == SelectSeq(array, Test)          \* Array.filter
Replaced(array, row) == [i \in DOMAIN array |-> IF array[i].id = row.id THEN row ELSE array[i]]

Matching(table, Test(_)) == {row \in table : Test(row)}
Oldest(rows) == CHOOSE row \in rows : \A other \in rows : row.id <= other.id
Newest(rows) == CHOOSE row \in rows : \A other \in rows : row.id >= other.id
Update(table, old, new) == (table \ {old}) \cup {new}

NewRow(call, default) ==
  Row(calls + 1, call.tenant, call.key, Coalesce(call.value, default), Coalesce(call.ref, Null))

(* An array pushed to and patched in place, field by field.                 *)
MemTable(call, default) ==
  IF call.op = "create" THEN Outcome(Append(memory, NewRow(call, default)), NewRow(call, default))
  ELSE LET own == Find(memory, LAMBDA r : r.id = call.id /\ r.tenant = call.tenant)
           patched == [own[1] EXCEPT !.value = Kept(call.value, @), !.ref = Kept(call.ref, @)]
       IN IF own = <<>> THEN Refused(memory) ELSE Outcome(Replaced(memory, patched), patched)

(* A table inserted into, unless a unique key is taken, and updated.        *)
DbTable(call, default, Taken(_)) ==
  IF call.op = "create"
  THEN IF \E r \in database : Taken(r) THEN Refused(database)
       ELSE Outcome(database \cup {NewRow(call, default)}, NewRow(call, default))
  ELSE LET own == Matching(database, LAMBDA r : r.id = call.id /\ r.tenant = call.tenant)
           old == Oldest(own)
           new == Row(old.id, old.tenant, old.key, Kept(call.value, old.value), Kept(call.ref, old.ref))
       IN IF own = {} THEN Refused(database) ELSE Outcome(Update(database, old, new), new)

Free(row) == FALSE

-----------------------------------------------------------------------------
(* Tables with rows created, patched and listed.                            *)

MemDomains(call) == MemTable(call, "requested")
DbDomains(call) == DbTable(call, "requested", LAMBDA r : r.key = call.key)

MemLocalListings(call) == MemTable(call, "draft")
DbLocalListings(call) == DbTable(call, "draft", Free)

MemProducts(call) == MemTable(call, "available")
DbProducts(call) == DbTable(call, "available", Free)

MemWhatsappOrders(call) == MemTable(call, "draft")
DbWhatsappOrders(call) == DbTable(call, "draft", Free)

MemDeployments(call) == MemTable(call, "queued")
DbDeployments(call) == DbTable(call, "queued", Free)

MemHostingDeployments(call) == MemTable(call, "requested")
DbHostingDeployments(call) ==
  DbTable(call, "requested", LAMBDA r : r.tenant = call.tenant /\ r.key = call.key)

MemProvisioningJobs(call) == MemTable(call, "queued")
DbProvisioningJobs(call) == DbTable(call, "queued", Free)

MemAgentJobs(call) == MemTable(call, "queued")
DbAgentJobs(call) == DbTable(call, "queued", Free)

(* The audit log is only appended to.                                       *)
MemAudit(call) == MemTable([call EXCEPT !.op = "create"], Null)
DbAudit(call) == DbTable([call EXCEPT !.op = "create"], Null, Free)

(* ensure: the tenant's repository of that slug, or a new one.              *)
MemSiteRepos(call) ==
  LET own == Find(memory, LAMBDA r : r.tenant = call.tenant /\ r.key = call.key)
  IN IF call.op = "create" /\ own # <<>> THEN Outcome(memory, own[1]) ELSE MemTable(call, "main")

DbSiteRepos(call) ==
  LET own == Matching(database, LAMBDA r : r.tenant = call.tenant /\ r.key = call.key)
  IN IF call.op = "create" /\ own # {} THEN Outcome(database, Oldest(own))
     ELSE DbTable(call, "main", LAMBDA r : r.tenant = call.tenant /\ r.key = call.key)

-----------------------------------------------------------------------------
(* Rows upserted by their key: memory builds a new record over the old one, *)
(* the database has one clause for an insert and one for an update.         *)

MemPut(call, Same(_), Built(_)) ==
  LET old == Find(memory, Same)
      new == IF old = <<>> THEN Built(Row(calls + 1, call.tenant, call.key, Undefined, Undefined))
                           ELSE Built(old[1])
  IN Outcome(IF old = <<>> THEN Append(memory, new) ELSE Replaced(memory, new), new)

DbPut(call, Same(_), Created, Updated(_)) ==
  LET old == Matching(database, Same)
      new == IF old = {} THEN Created ELSE Updated(Oldest(old))
  IN Outcome(IF old = {} THEN database \cup {new} ELSE Update(database, Oldest(old), new), new)

Fresh(call, value, ref) == Row(calls + 1, call.tenant, call.key, value, ref)

(* One connection per tenant and interface.                                 *)
MemAdapterConnections(call) ==
  MemPut(call, LAMBDA r : r.tenant = call.tenant /\ r.key = call.key,
         LAMBDA old : [old EXCEPT !.value = Coalesce(call.value, Coalesce(@, "pending")),
                                  !.ref = Coalesce(call.ref, Coalesce(@, Null))])
DbAdapterConnections(call) ==
  DbPut(call, LAMBDA r : r.tenant = call.tenant /\ r.key = call.key,
        Fresh(call, Coalesce(call.value, "pending"), Coalesce(call.ref, Null)),
        LAMBDA old : [old EXCEPT !.value = Kept(call.value, @),
                                 !.ref = Kept(IF call.ref = Null THEN Undefined ELSE call.ref, @)])

(* Mutant: an upsert that says nothing of the provider's subscription       *)
(* forgets it.                                                              *)
MemSubscriptions_Forgets(call) ==
  MemPut(call, LAMBDA r : r.tenant = call.tenant,
         LAMBDA old : [old EXCEPT !.key = call.key, !.value = Coalesce(call.value, Coalesce(@, "mock")),
                                  !.ref = Coalesce(call.ref, Null)])

(* One subscription per tenant: key is the plan, value the provider, ref    *)
(* the provider's subscription.                                             *)
MemSubscriptions(call) ==
  MemPut(call, LAMBDA r : r.tenant = call.tenant,
         LAMBDA old : [old EXCEPT !.key = call.key, !.value = Coalesce(call.value, Coalesce(@, "mock")),
                                  !.ref = IF call.ref # Undefined THEN call.ref ELSE Coalesce(@, Null)])
DbSubscriptions(call) ==
  DbPut(call, LAMBDA r : r.tenant = call.tenant,
        Fresh(call, Coalesce(call.value, "mock"), Coalesce(call.ref, Null)),
        LAMBDA old : [old EXCEPT !.key = call.key, !.value = Kept(call.value, @), !.ref = Kept(call.ref, @)])

(* One invoice per tenant and period: value is the total, always given; its *)
(* one caller names no provider invoice.                                    *)
MemInvoices(call) ==
  MemPut(call, LAMBDA r : r.tenant = call.tenant /\ r.key = call.key,
         LAMBDA old : [old EXCEPT !.value = call.value, !.ref = Coalesce(Null, Coalesce(@, Null))])
DbInvoices(call) ==
  DbPut(call, LAMBDA r : r.tenant = call.tenant /\ r.key = call.key,
        Fresh(call, call.value, Null),
        LAMBDA old : [old EXCEPT !.value = call.value, !.ref = Null])

(* One policy per tenant, made when first read: an update reads it first.   *)
MemAgentPolicies(call) ==
  MemPut(call, LAMBDA r : r.tenant = call.tenant,
         LAMBDA old : [old EXCEPT !.key = "policy", !.value = Coalesce(call.value, Coalesce(@, "running")),
                                  !.ref = Coalesce(call.ref, Coalesce(@, "nocap"))])
DbAgentPolicies(call) ==
  DbPut(call, LAMBDA r : r.tenant = call.tenant,
        [Fresh(call, Coalesce(call.value, "running"), Coalesce(call.ref, "nocap")) EXCEPT !.key = "policy"],
        LAMBDA old : [old EXCEPT !.value = Kept(call.value, @), !.ref = Kept(call.ref, @)])

(* upsertPrimary: the tenant's oldest business.                             *)
MemBusinesses(call) ==
  MemPut(call, LAMBDA r : r.tenant = call.tenant,
         LAMBDA old : [old EXCEPT !.key = call.key, !.value = "profile", !.ref = Null])
DbBusinesses(call) ==
  DbPut(call, LAMBDA r : r.tenant = call.tenant,
        Fresh(call, "profile", Null), LAMBDA old : [old EXCEPT !.key = call.key])

-----------------------------------------------------------------------------
(* Sites and their versions: memory counts a site's versions and flags the  *)
(* current one; the database's row points at it.                            *)

Version(site, number, content, current) ==
  [site |-> site, number |-> number, content |-> content, current |-> current]

MemSite(tenant, slug) ==
  Find(memory.sites, LAMBDA s : s.tenant = tenant /\ s.slug = slug)

(* The site's record is rebuilt one version on; the versions are all marked *)
(* as not current, and the new one pushed as current.                       *)
MemPublish(tenant, slug, content) ==
  LET own == MemSite(tenant, slug)
      site == [id |-> IF own = <<>> THEN calls + 1 ELSE own[1].id, tenant |-> tenant, slug |-> slug,
               version |-> IF own = <<>> THEN 1 ELSE own[1].version + 1, content |-> content]
      closed == [i \in DOMAIN memory.versions |->
                   IF memory.versions[i].site = site.id THEN [memory.versions[i] EXCEPT !.current = FALSE]
                                                        ELSE memory.versions[i]]
  IN Outcome([sites |-> IF own = <<>> THEN Append(memory.sites, site) ELSE Replaced(memory.sites, site),
              versions |-> Append(closed, Version(site.id, site.version, content, TRUE))],
             [id |-> site.id, version |-> site.version, content |-> content])

MemRestore(tenant, id, number) ==
  LET target == Find(memory.versions, LAMBDA v : v.site = id /\ v.number = number)
      site == Find(memory.sites, LAMBDA s : s.id = id /\ s.tenant = tenant)
  IN IF site = <<>> \/ target = <<>> THEN Refused(memory)
     ELSE MemPublish(tenant, site[1].slug, target[1].content)

MemSites(call) ==
  IF call.op = "create" THEN MemPublish(call.tenant, call.key, call.value)
                        ELSE MemRestore(call.tenant, call.id, call.number)

(* A version one on from the one the site's row points at; the row is then  *)
(* pointed at it. (siteId, version) is unique.                              *)
DbNext(site, content) ==
  LET number == IF site.current = 0 THEN 1
                ELSE (CHOOSE v \in database.versions : v.id = site.current).number + 1
      version == [id |-> calls + 1, site |-> site.id, number |-> number, content |-> content]
  IN IF \E v \in database.versions : v.site = site.id /\ v.number = number THEN Refused(database)
     ELSE Outcome([sites |-> {s \in database.sites : s.id # site.id} \cup {[site EXCEPT !.current = version.id]},
                   versions |-> database.versions \cup {version}],
                  [id |-> site.id, version |-> number, content |-> content])

DbPublish(tenant, slug, content) ==
  LET own == Matching(database.sites, LAMBDA s : s.tenant = tenant /\ s.slug = slug)
  IN DbNext(IF own = {} THEN [id |-> calls + 1, tenant |-> tenant, slug |-> slug, current |-> 0]
                        ELSE Oldest(own), content)

DbRestore(tenant, id, number) ==
  LET site == Matching(database.sites, LAMBDA s : s.id = id /\ s.tenant = tenant)
      target == Matching(database.versions, LAMBDA v : v.site = id /\ v.number = number)
  IN IF site = {} \/ target = {} THEN Refused(database)
     ELSE DbNext(Oldest(site), Oldest(target).content)

DbSites(call) ==
  IF call.op = "create" THEN DbPublish(call.tenant, call.key, call.value)
                        ELSE DbRestore(call.tenant, call.id, call.number)

MemVersions(id) ==
  SortSeq(Find(memory.versions, LAMBDA v : v.site = id), LAMBDA a, b : a.number > b.number)

DbVersions(id) ==
  LET site == Oldest(Matching(database.sites, LAMBDA s : s.id = id))
      seen(v) == Version(id, v.number, v.content, v.id = site.current)
  IN SetToSortSeq({seen(v) : v \in Matching(database.versions, LAMBDA v : v.site = id)},
                  LAMBDA a, b : a.number > b.number)

-----------------------------------------------------------------------------
(* Leads: key is the contact, trimmed and in lower case as both compare it; *)
(* value is the day the lead's retention ends, Forever without one.         *)
Forever == 0

Lead(call) == Row(calls + 1, call.tenant, call.key, call.value, Null)

MemLeads(call) ==
  IF call.op = "create" THEN Outcome(Append(memory, Lead(call)), Lead(call))
  ELSE LET left == IF call.op = "purge"
                   THEN Find(memory, LAMBDA r : r.value = Forever \/ r.value > call.value)
                   ELSE Find(memory, LAMBDA r : r.key # call.key)
       IN Outcome(left, Len(memory) - Len(left))

DbLeads(call) ==
  IF call.op = "create" THEN Outcome(database \cup {Lead(call)}, Lead(call))
  ELSE LET gone == IF call.op = "purge"
                   THEN Matching(database, LAMBDA r : r.value # Forever /\ r.value <= call.value)
                   ELSE Matching(database, LAMBDA r : r.key = call.key)
       IN Outcome(database \ gone, Cardinality(gone))

-----------------------------------------------------------------------------
(* The wallet and the usage it was debited for.                             *)

MemBalance(tenant) == LET own == Find(memory.wallets, LAMBDA w : w.tenant = tenant)
                      IN IF own = <<>> THEN 0 ELSE own[1].balance

MemSet(tenant, balance) ==
  LET wallet == [tenant |-> tenant, balance |-> balance]
  IN IF \E i \in DOMAIN memory.wallets : memory.wallets[i].tenant = tenant
     THEN [i \in DOMAIN memory.wallets |->
             IF memory.wallets[i].tenant = tenant THEN wallet ELSE memory.wallets[i]]
     ELSE Append(memory.wallets, wallet)

MemWallet(call) ==
  LET debited(u) == u.tenant = call.tenant /\ u.key = call.key
      balance == MemBalance(call.tenant)
      after == IF call.op = "credit" THEN balance + call.value ELSE balance - call.value
  IN IF call.op = "debit" /\ Find(memory.usage, debited) # <<>>
     THEN Outcome(memory, <<FALSE, balance>>)
     ELSE Outcome([wallets |-> MemSet(call.tenant, after),
                   usage |-> IF call.op = "credit" THEN memory.usage
                             ELSE Append(memory.usage, [tenant |-> call.tenant, key |-> call.key, amount |-> call.value])],
                  <<TRUE, after>>)

(* The wallet's row is made first; the usage row is inserted unless its key *)
(* conflicts, and the balance decremented only if it was.                   *)
DbWallet(call) ==
  LET made == IF \E w \in database.wallets : w.tenant = call.tenant THEN database.wallets
              ELSE database.wallets \cup {[tenant |-> call.tenant, balance |-> 0]}
      old == CHOOSE w \in made : w.tenant = call.tenant
      conflict == call.op = "debit" /\ \E u \in database.usage : u.tenant = call.tenant /\ u.key = call.key
      after == IF conflict THEN old.balance
               ELSE IF call.op = "credit" THEN old.balance + call.value ELSE old.balance - call.value
  IN Outcome([wallets |-> Update(made, old, [old EXCEPT !.balance = after]),
              usage |-> IF conflict \/ call.op = "credit" THEN database.usage
                        ELSE database.usage \cup {[tenant |-> call.tenant, key |-> call.key, amount |-> call.value]}],
             <<~conflict, after>>)

-----------------------------------------------------------------------------
(* The reliability stores (integrations/core/stores): approvals, whose key  *)
(* is the nonce; operations, with their status and the instant they settle  *)
(* at; and the webhook events claimed.                                      *)

Settled(row, status) == [row EXCEPT !.value = status]

MemApprovals(call) ==
  LET found == Find(memory, LAMBDA r : r.key = call.key)
      issued == Row(calls + 1, call.tenant, call.key, "issued", Null)
  IN IF call.op = "create" THEN Outcome(Append(memory, issued), Null)
     ELSE IF found = <<>> \/ found[1].tenant # call.tenant \/ found[1].value # "issued"
     THEN Refused(memory)
     ELSE Outcome(Replaced(memory, Settled(found[1], "consumed")), Null)

DbApprovals(call) ==
  LET free == Matching(database, LAMBDA r : r.key = call.key /\ r.tenant = call.tenant /\ r.value = "issued")
      issued == Row(calls + 1, call.tenant, call.key, "issued", Null)
  IN IF call.op = "create" THEN Outcome(database \cup {issued}, Null)
     ELSE IF free = {} THEN Refused(database)
     ELSE Outcome(Update(database, Oldest(free), Settled(Oldest(free), "consumed")), Null)

Pending(call) == Row(calls + 1, call.tenant, call.key, "pending", call.at)
Due(row, call) == row.value = "pending" /\ call.at >= row.ref

MemOperations(call) ==
  LET byKey == Find(memory, LAMBDA r : r.tenant = call.tenant /\ r.key = call.key)
      byId == Find(memory, LAMBDA r : r.id = call.id /\ r.tenant = call.tenant)
  IN CASE call.op = "create" -> IF byKey # <<>> THEN Outcome(memory, byKey[1])
                                ELSE Outcome(Append(memory, Pending(call)), Pending(call))
       [] call.op = "settle" -> IF byId = <<>> THEN Refused(memory)
            ELSE LET row == IF byId[1].value = "pending" THEN Settled(byId[1], call.value) ELSE byId[1]
                 IN Outcome(Replaced(memory, row), row)
       [] call.op = "sweep" ->
            Outcome([i \in DOMAIN memory |-> IF Due(memory[i], call) THEN Settled(memory[i], "succeeded")
                                                                     ELSE memory[i]],
                    Len(Find(memory, LAMBDA r : Due(r, call))))

DbOperations(call) ==
  LET byKey == Matching(database, LAMBDA r : r.tenant = call.tenant /\ r.key = call.key)
      byId == Matching(database, LAMBDA r : r.id = call.id /\ r.tenant = call.tenant)
      after == {IF r.value = "pending" THEN Settled(r, call.value) ELSE r : r \in byId}
      due == Matching(database, LAMBDA r : Due(r, call))
  IN CASE call.op = "create" -> IF byKey # {} THEN Outcome(database, Oldest(byKey))
                                ELSE Outcome(database \cup {Pending(call)}, Pending(call))
       [] call.op = "settle" -> IF byId = {} THEN Refused(database)
                                ELSE Outcome((database \ byId) \cup after, Oldest(after))
       [] call.op = "sweep" -> Outcome((database \ due) \cup {Settled(r, "succeeded") : r \in due}, Cardinality(due))

MemWebhookEvents(call) ==
  IF Find(memory, LAMBDA r : r.key = call.key) # <<>> THEN Outcome(memory, FALSE)
  ELSE Outcome(Append(memory, Row(calls + 1, call.tenant, call.key, "claimed", Null)), TRUE)

DbWebhookEvents(call) ==
  LET claimed == Row(calls + 1, call.tenant, call.key, "claimed", Null)
      inserted == IF \E r \in database : r.key = call.key THEN {} ELSE {claimed}
  IN Outcome(database \cup inserted, Cardinality(inserted) = 1)

-----------------------------------------------------------------------------
(* The calls.                                                               *)

Ids == 1..calls
Call(op, tenant, key, id, change) ==
  [op |-> op, tenant |-> tenant, key |-> key, id |-> id, value |-> change[1], ref |-> change[2]]

Given == {<<Undefined, Undefined>>, <<"a", "x">>}
Changed == {<<"b", Undefined>>, <<Undefined, Null>>, <<Undefined, "x">>}

(* The callers look for the row before they create a second one.            *)
MayCreate(tenant, key) ==
  \A i \in DOMAIN memory :
    CASE repo \in {"domains", "approvals"} -> memory[i].key # key
      [] repo = "hostingDeployments" -> memory[i].key # key \/ memory[i].tenant # tenant
      [] OTHER -> TRUE

TableCalls ==
  {Call("create", p[1], p[2], 0, change) :
     p \in {q \in Tenants \X Keys : MayCreate(q[1], q[2])}, change \in Given}
  \cup {Call("update", t, "k1", id, change) : t \in Tenants, id \in Ids, change \in Changed}

PutCalls ==
  {Call("put", t, k, 0, change) : t \in Tenants, k \in Keys,
     change \in CASE repo = "invoices" -> {<<"a", Undefined>>, <<"b", Undefined>>}
                  [] repo = "agentPolicies" -> Given \cup {<<"b", Undefined>>, <<Undefined, "y">>}
                  [] OTHER -> Given \cup Changed}

SiteCalls ==
  {[op |-> "create", tenant |-> t, key |-> k, value |-> content] :
     t \in Tenants, k \in Keys, content \in {"a", "b"}}
  \cup {[op |-> "restore", tenant |-> t, id |-> id, number |-> n] :
     t \in Tenants, id \in Ids, n \in 1..2}

LeadCalls ==
  {Call("create", t, k, 0, <<day, Null>>) : t \in Tenants, k \in Keys, day \in {Forever, 1, 2}}
  \cup {Call("purge", t, "k1", 0, <<day, Null>>) : t \in Tenants, day \in 1..2}
  \cup {Call("erase", t, k, 0, <<Forever, Null>>) : t \in Tenants, k \in Keys}

WalletCalls ==
  {[op |-> op, tenant |-> t, key |-> k, value |-> amount] :
     op \in {"credit", "debit"}, t \in Tenants, k \in Keys, amount \in 1..2}

(* A nonce is minted once; operations settle at instant 1 or 2.             *)
ReliabilityCalls ==
  {[op |-> "create", tenant |-> p[1], key |-> p[2], at |-> at] :
     p \in {q \in Tenants \X Keys : MayCreate(q[1], q[2])},
     at \in IF repo = "operations" THEN 1..2 ELSE {1}}
  \cup CASE repo = "approvals" -> {[op |-> "consume", tenant |-> t, key |-> k] : t \in Tenants, k \in Keys}
       [] repo = "operations" ->
            {[op |-> "settle", tenant |-> t, id |-> id, key |-> "k1", value |-> v] :
               t \in Tenants, id \in Ids, v \in {"succeeded", "failed"}}
            \cup {[op |-> "sweep", tenant |-> t, id |-> 0, key |-> "k1", at |-> at] : t \in Tenants, at \in 1..2}
       [] OTHER -> {}

Calls == CASE repo \in Tables -> TableCalls
           [] repo \in Upserted -> PutCalls
           [] repo \in Reliability -> ReliabilityCalls
           [] repo = "sites" -> SiteCalls
           [] repo = "leads" -> LeadCalls
           [] repo = "wallet" -> WalletCalls

Memory(call) ==
  CASE repo = "domains" -> MemDomains(call)
    [] repo = "localListings" -> MemLocalListings(call)
    [] repo = "products" -> MemProducts(call)
    [] repo = "whatsappOrders" -> MemWhatsappOrders(call)
    [] repo = "siteRepos" -> MemSiteRepos(call)
    [] repo = "deployments" -> MemDeployments(call)
    [] repo = "hostingDeployments" -> MemHostingDeployments(call)
    [] repo = "provisioningJobs" -> MemProvisioningJobs(call)
    [] repo = "agentJobs" -> MemAgentJobs(call)
    [] repo = "audit" -> MemAudit(call)
    [] repo = "adapterConnections" -> MemAdapterConnections(call)
    [] repo = "subscriptions" -> MemSubscriptions(call)
    [] repo = "invoices" -> MemInvoices(call)
    [] repo = "agentPolicies" -> MemAgentPolicies(call)
    [] repo = "businesses" -> MemBusinesses(call)
    [] repo = "approvals" -> MemApprovals(call)
    [] repo = "operations" -> MemOperations(call)
    [] repo = "webhookEvents" -> MemWebhookEvents(call)
    [] repo = "sites" -> MemSites(call)
    [] repo = "leads" -> MemLeads(call)
    [] repo = "wallet" -> MemWallet(call)

Database(call) ==
  CASE repo = "domains" -> DbDomains(call)
    [] repo = "localListings" -> DbLocalListings(call)
    [] repo = "products" -> DbProducts(call)
    [] repo = "whatsappOrders" -> DbWhatsappOrders(call)
    [] repo = "siteRepos" -> DbSiteRepos(call)
    [] repo = "deployments" -> DbDeployments(call)
    [] repo = "hostingDeployments" -> DbHostingDeployments(call)
    [] repo = "provisioningJobs" -> DbProvisioningJobs(call)
    [] repo = "agentJobs" -> DbAgentJobs(call)
    [] repo = "audit" -> DbAudit(call)
    [] repo = "adapterConnections" -> DbAdapterConnections(call)
    [] repo = "subscriptions" -> DbSubscriptions(call)
    [] repo = "invoices" -> DbInvoices(call)
    [] repo = "agentPolicies" -> DbAgentPolicies(call)
    [] repo = "businesses" -> DbBusinesses(call)
    [] repo = "approvals" -> DbApprovals(call)
    [] repo = "operations" -> DbOperations(call)
    [] repo = "webhookEvents" -> DbWebhookEvents(call)
    [] repo = "sites" -> DbSites(call)
    [] repo = "leads" -> DbLeads(call)
    [] repo = "wallet" -> DbWallet(call)

Init ==
  /\ repo \in Repos
  /\ memory = CASE repo = "sites" -> [sites |-> <<>>, versions |-> <<>>]
                [] repo = "wallet" -> [wallets |-> <<>>, usage |-> <<>>]
                [] OTHER -> <<>>
  /\ database = CASE repo = "sites" -> [sites |-> {}, versions |-> {}]
                  [] repo = "wallet" -> [wallets |-> {}, usage |-> {}]
                  [] OTHER -> {}
  /\ answers = <<<<>>, <<>>>>
  /\ calls = 0

Answer == \E call \in Calls :
  /\ calls < MaxCalls
  /\ memory' = Memory(call).store
  /\ database' = Database(call).store
  /\ answers' = <<Memory(call).answer, Database(call).answer>>
  /\ calls' = calls + 1
  /\ UNCHANGED repo

Spec == Init /\ [][Answer]_vars

-----------------------------------------------------------------------------
(* What can be read back: a list newest first, a queue oldest first, the    *)
(* primary row, the latest of a key; and the first found of a key, of which *)
(* the database may answer any.                                             *)

MemNewestFirst(tenant) ==
  SortSeq(Find(memory, LAMBDA r : r.tenant = tenant), LAMBDA a, b : a.id > b.id)
MemQueue == SortSeq(Find(memory, LAMBDA r : r.value = "queued"), LAMBDA a, b : a.id < b.id)

DbNewestFirst(tenant) ==
  SetToSortSeq(Matching(database, LAMBDA r : r.tenant = tenant), LAMBDA a, b : a.id > b.id)
DbQueue == SetToSortSeq(Matching(database, LAMBDA r : r.value = "queued"), LAMBDA a, b : a.id < b.id)

SameRows ==
  /\ \A t \in Tenants :
       /\ MemNewestFirst(t) = DbNewestFirst(t)
       /\ \A k \in Keys :
            LET found == Find(memory, LAMBDA r : r.tenant = t /\ r.key = k)
                rows == Matching(database, LAMBDA r : r.tenant = t /\ r.key = k)
            IN IF found = <<>> THEN rows = {} ELSE found[1] \in rows
  /\ repo # "leads" => MemQueue = DbQueue

SameSites ==
  /\ ToSet([i \in DOMAIN memory.sites |-> memory.sites[i].id]) = {s.id : s \in database.sites}
  /\ \A site \in database.sites : MemVersions(site.id) = DbVersions(site.id)

SameLedger ==
  /\ \A t \in Tenants : MemBalance(t) = LET own == Matching(database.wallets, LAMBDA w : w.tenant = t)
                                         IN IF own = {} THEN 0 ELSE (CHOOSE w \in own : TRUE).balance
  /\ ToSet(memory.usage) = database.usage /\ Len(memory.usage) = Cardinality(database.usage)

(* What the tests learn from memory holds of the database: after any calls  *)
(* the callers make, both answered alike and both read back alike.          *)
StoresAgree ==
  /\ answers[1] = answers[2]
  /\ CASE repo = "sites" -> SameSites [] repo = "wallet" -> SameLedger [] OTHER -> SameRows
=============================================================================
