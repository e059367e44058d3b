------------------------------ MODULE Corporate ------------------------------
(***************************************************************************)
(* Corporate accounts: registration, staff, the ledger an organization     *)
(* shares, its amortization plans and fiscal documents, and the numbers    *)
(* those and loans get.  ledger/services.py and ledger/views.py.           *)
(*                                                                         *)
(* A request that reads before its transaction is two steps, the first of  *)
(* which keeps what was read in req; one that is a transaction, or that    *)
(* reads again inside it, is one step.  A transaction that takes a number  *)
(* is two: the number is drawn, then the rows are made and it commits, or  *)
(* it is rolled back.  It holds the write lock meanwhile (transaction_mode *)
(* IMMEDIATE): others only read.  A process may die between steps.         *)
(* Names, amounts and dates are left out; an organization is called by the *)
(* person who registered it, and a row by the order of its creation.       *)
(***************************************************************************)
EXTENDS Integers, Sequences, FiniteSets

CONSTANTS
  People,     \* persons, each with an email address of their own
  NoOrg,      \* of a personal account, and of its rows
  Types,      \* DocumentType
  Reference,  \* the counter of loan references, shared by all ledgers
  MaxPayments,\* bound: payments there may be
  MaxStaffing,\* bound: requests that manage staff
  MaxWork     \* bound: those requests and the rows ever made, together

ASSUME CorporateAssumption ==
  /\ NoOrg \notin People /\ Reference \notin Types /\ IsFiniteSet(People)

VARIABLES
  account,  \* who has a user account
  orgs,     \* Organization
  member,   \* OrganizationMembership: who belongs to an organization, with which role
  clients, debts, payments, plans, docs, \* rows by id
  nextId,
  last,     \* DocumentSequence and DebtReferenceSequence
  req,      \* per person: the request that has read, or drawn a number, and not yet written
  staffing, \* requests that managed staff
  numbers,  \* history: the numbers of the loans or documents committed for each counter
  astray    \* history: organizations whose owner gave up the role, or was demoted or
            \* removed by someone who was no longer an owner

ledger == <<clients, debts, payments, plans, docs, nextId, last, numbers>>
people == <<account, orgs, member, staffing, astray>>
vars == <<ledger, people, req>>

None == 0
Idle == [kind |-> "idle"]
NoMember == [org |-> NoOrg, role |-> "none"]
Counters == (People \X Types) \cup {Reference}

Init ==
  /\ account = {} /\ orgs = {} /\ member = [p \in People |-> NoMember]
  /\ clients = <<>> /\ debts = <<>> /\ payments = <<>> /\ plans = <<>> /\ docs = <<>>
  /\ nextId = 1
  /\ last = [k \in Counters |-> 0]
  /\ req = [p \in People |-> Idle]
  /\ staffing = 0
  /\ numbers = [k \in Counters |-> <<>>]
  /\ astray = {}

-----------------------------------------------------------------------------
(* Who sees what.                                                          *)

IsMember(p) == member[p] # NoMember
Owns(p, org) == member[p] = [org |-> org, role |-> "owner"]
Owners(org) == {p \in People : Owns(p, org)}

\* resolve_scope: the organization's rows, or all the rows a personal account owns.
InScope(p, row) == IF IsMember(p) THEN row.org = member[p].org ELSE row.owner = p
Scoped(p, table) == {i \in DOMAIN table : InScope(p, table[i])}

Free(p) == p \in account /\ req[p] = Idle
Room(n) == nextId - 1 + staffing + n <= MaxWork
Keep(p, request) == req' = [req EXCEPT ![p] = request]
Serving(p, kind) == req[p].kind = kind /\ Keep(p, Idle)

\* Who is inside a transaction has the write lock.
Writing(p) == req[p].kind \in {"lend", "issue"}
Unlocked == \A p \in People : ~Writing(p)

Put(table, i, row) == [j \in DOMAIN table \cup {i} |-> IF j = i THEN row ELSE table[j]]
Without(table, S) == [i \in DOMAIN table \ S |-> table[i]]

-----------------------------------------------------------------------------
(* Registration and staff.                                                 *)

\* register_view: the user is created, then, for a corporate account, the organization.
Register(p) ==
  /\ p \notin account
  /\ account' = account \cup {p}
  /\ Keep(p, Idle) \/ Keep(p, [kind |-> "found"])
  /\ UNCHANGED <<ledger, orgs, member, staffing, astray>>

\* create_organization_with_owner.
Found(p) ==
  /\ Serving(p, "found")
  /\ orgs' = orgs \cup {p}
  /\ member' = [member EXCEPT ![p] = [org |-> p, role |-> "owner"]]
  /\ UNCHANGED <<ledger, account, staffing, astray>>

\* require_owner_role and the checks that follow it.
CreateStaff(p) ==
  /\ Free(p) /\ Owns(p, member[p].org)
  /\ staffing < MaxStaffing /\ Room(1) /\ staffing' = staffing + 1
  /\ \E q \in People \ account, role \in {"owner", "staff"} :
       Keep(p, [kind |-> "create", who |-> q, role |-> role, org |-> member[p].org])
  /\ UNCHANGED <<ledger, account, orgs, member, astray>>

\* A user made meanwhile with the same email address refuses this one.
StaffCreated(p) ==
  LET r == req[p]
  IN /\ Serving(p, "create")
     /\ IF r.who \in account THEN UNCHANGED <<account, member>>
        ELSE /\ account' = account \cup {r.who}
             /\ member' = [member EXCEPT ![r.who] = [org |-> r.org, role |-> r.role]]
     /\ UNCHANGED <<ledger, orgs, staffing, astray>>

UpdateStaff(p) ==
  /\ Free(p) /\ Owns(p, member[p].org)
  /\ staffing < MaxStaffing /\ Room(1) /\ staffing' = staffing + 1
  /\ \E q \in People, role \in {"owner", "staff"} :
       /\ member[q].org = member[p].org
       /\ Keep(p, [kind |-> "update", who |-> q, role |-> role])
  /\ UNCHANGED <<ledger, account, orgs, member, astray>>

\* Mutant: an owner may remove the last owner, who is themselves.
NotSelfAnyone(p, q) == TRUE

NotSelf(p, q) == p # q

RemoveStaff(p) ==
  /\ Free(p) /\ Owns(p, member[p].org)
  /\ staffing < MaxStaffing /\ Room(1) /\ staffing' = staffing + 1
  /\ \E q \in People :
       NotSelf(p, q) /\ Keep(p, [kind |-> "remove", who |-> q, org |-> member[p].org])
  /\ UNCHANGED <<ledger, account, orgs, member, astray>>

\* An owner q loses the role at the request of p, who is no longer one.
Strayed(p, q, org) ==
  IF Owns(q, org) /\ ~Owns(p, org) THEN astray \cup {org} ELSE astray

\* The account was saved just before; the save of a membership that is gone fails.
StaffUpdated(p) ==
  LET q == req[p].who
  IN /\ Serving(p, "update")
     /\ IF ~IsMember(q) THEN UNCHANGED <<member, astray>>
        ELSE /\ member' = [member EXCEPT ![q].role = req[p].role]
             /\ astray' = IF req[p].role = "owner" THEN astray
                        ELSE IF p = q THEN astray \cup {member[q].org}
                        ELSE Strayed(p, q, member[q].org)
     /\ UNCHANGED <<ledger, account, orgs, staffing>>

StaffRemoved(p) ==
  LET q == req[p].who
      org == req[p].org
  IN /\ Serving(p, "remove")
     /\ IF member[q].org # org THEN UNCHANGED <<member, astray>>
        ELSE /\ member' = [member EXCEPT ![q] = NoMember]
             /\ astray' = Strayed(p, q, org)
     /\ UNCHANGED <<ledger, account, orgs, staffing>>

\* The process dies, or the connection is lost, before the request writes.
Lost(p) ==
  /\ req[p] # Idle /\ ~Writing(p)
  /\ Keep(p, Idle)
  /\ UNCHANGED <<ledger, people>>

-----------------------------------------------------------------------------
(* Numbers.                                                                *)

\* next_document_number and next_reference.
Following(k) == last[k] + 1

\* Inside p's transaction: what it will make is kept with the number drawn for it.
Draw(p, kind, k, cited) ==
  /\ last' = [last EXCEPT ![k] = Following(k)]
  /\ Keep(p, [kind |-> kind, counter |-> k, number |-> Following(k), cited |-> cited])
  /\ UNCHANGED <<clients, debts, payments, plans, docs, nextId, numbers, people>>

Commit(p, kind) ==
  /\ Serving(p, kind)
  /\ numbers' = [numbers EXCEPT ![req[p].counter] = Append(@, req[p].number)]
  /\ UNCHANGED <<last, people>>

\* Mutant: the number was drawn in a transaction of its own.
RolledBackKeeping(p) ==
  /\ Writing(p)
  /\ Keep(p, Idle)
  /\ UNCHANGED <<ledger, people>>

\* A row is refused, or the process dies: the counter goes back with the rest.
RolledBack(p) ==
  /\ Writing(p)
  /\ last' = [last EXCEPT ![req[p].counter] = req[p].number - 1]
  /\ Keep(p, Idle)
  /\ UNCHANGED <<clients, debts, payments, plans, docs, nextId, numbers, people>>

-----------------------------------------------------------------------------
(* Clients, loans and payments.                                            *)

ClientRow(p) == [owner |-> p, org |-> member[p].org]

\* clients_view.
CreateClient(p) ==
  /\ Free(p) /\ Room(1)
  /\ clients' = Put(clients, nextId, ClientRow(p))
  /\ nextId' = nextId + 1
  /\ UNCHANGED <<debts, payments, plans, docs, last, numbers, people, req>>

\* create_debt, for a client in scope or, by name, for one it creates.
Lend(p) ==
  /\ Free(p) /\ Room(3)
  /\ \E c \in Scoped(p, clients) \cup {None} : Draw(p, "lend", Reference, c)

\* A corporate loan gets its plan.
Lent(p) ==
  LET org == member[p].org
      c == IF req[p].cited = None THEN nextId ELSE req[p].cited
      loan == nextId + 1
  IN /\ Commit(p, "lend")
     /\ clients' = IF c = nextId THEN Put(clients, c, ClientRow(p)) ELSE clients
     /\ debts' = Put(debts, loan, [owner |-> p, org |-> org, client |-> c, number |-> req[p].number])
     /\ plans' = IF org = NoOrg THEN plans
                 ELSE Put(plans, nextId + 2, [org |-> org, client |-> c, debt |-> loan])
     /\ nextId' = nextId + 3
     /\ UNCHANGED <<payments, docs>>

\* record_payment.
Pay(p) ==
  /\ Free(p) /\ Room(1) /\ Cardinality(DOMAIN payments) < MaxPayments
  /\ \E d \in Scoped(p, debts) :
       payments' = Put(payments, nextId, [org |-> debts[d].org, client |-> debts[d].client, debt |-> d])
  /\ nextId' = nextId + 1
  /\ UNCHANGED <<clients, debts, plans, docs, last, numbers, people, req>>

PaidOn(S) == {i \in DOMAIN payments : payments[i].debt \in S}

\* Loans are deleted with their payments, which documents and plans then forget.
DropDebts(S, paid, kept, planned) ==
  /\ debts' = Without(debts, S)
  /\ payments' = Without(payments, paid)
  /\ docs' = [x \in DOMAIN kept |->
                IF kept[x].payment \in paid THEN [kept[x] EXCEPT !.payment = None] ELSE kept[x]]
  /\ plans' = [a \in DOMAIN planned |->
                 IF planned[a].debt \in S THEN [planned[a] EXCEPT !.debt = None] ELSE planned[a]]

\* A document of a loan refuses the deletion.
Protected(S) == \E x \in DOMAIN docs : docs[x].debt \in S

\* debt_detail_view finds a loan; debts_view takes all of the ledger.
DeleteDebts(p) ==
  /\ Free(p)
  /\ \E S \in {{d} : d \in Scoped(p, debts)} \cup {Scoped(p, debts)} :
       S # {} /\ Keep(p, [kind |-> "debts", ids |-> S])
  /\ UNCHANGED <<ledger, people>>

DebtsDeleted(p) ==
  LET S == req[p].ids \cap DOMAIN debts
  IN /\ Serving(p, "debts")
     /\ IF Protected(S) THEN UNCHANGED ledger
        ELSE DropDebts(S, PaidOn(S), docs, plans) /\ UNCHANGED <<clients, nextId, last, numbers>>
     /\ UNCHANGED people

\* client_detail_view finds the client; delete_client gets it again.
DeleteClient(p) ==
  /\ Free(p)
  /\ \E c \in Scoped(p, clients) : Keep(p, [kind |-> "client", id |-> c])
  /\ UNCHANGED <<ledger, people>>

\* Mutant: only the documents addressed to the client are deleted with it.
DocumentsAddressedTo(c) == {x \in DOMAIN docs : docs[x].client = c}

\* The documents that are addressed to the client or cite a loan or payment of it.
DocumentsOf(c) ==
  {x \in DOMAIN docs :
     \/ docs[x].client = c
     \/ docs[x].debt # None /\ debts[docs[x].debt].client = c
     \/ docs[x].payment # None /\ payments[docs[x].payment].client = c}

LoansOf(c) == {d \in DOMAIN debts : debts[d].client = c}

\* delete_client: the documents, the payments and loans, the client, its plans.  A row
\* left behind that cites one of them would refuse it.
ClientDeleted(p) ==
  LET c == req[p].id
      paid == {i \in DOMAIN payments : payments[i].client = c}
  IN /\ Serving(p, "client")
     /\ IF c \notin DOMAIN clients THEN UNCHANGED ledger
        ELSE /\ DropDebts(LoansOf(c), paid \cup PaidOn(LoansOf(c)), Without(docs, DocumentsOf(c)),
                          Without(plans, {a \in DOMAIN plans : plans[a].client = c}))
             /\ clients' = Without(clients, {c})
             /\ UNCHANGED <<nextId, last, numbers>>
     /\ UNCHANGED people

-----------------------------------------------------------------------------
(* Plans and documents, for members only.                                  *)

\* amortization_plans_view: the client is read and the plan saved.
SavePlan(p) ==
  /\ Free(p) /\ IsMember(p) /\ Room(1)
  /\ \E c \in Scoped(p, clients) : Keep(p, [kind |-> "plan", id |-> c, org |-> member[p].org])
  /\ UNCHANGED <<ledger, people>>

PlanSaved(p) ==
  LET r == req[p]
  IN /\ Serving(p, "plan")
     /\ IF r.id \notin DOMAIN clients \/ ~Room(1) THEN UNCHANGED ledger
        ELSE /\ plans' = Put(plans, nextId, [org |-> r.org, client |-> r.id, debt |-> None])
             /\ nextId' = nextId + 1
             /\ UNCHANGED <<clients, debts, payments, docs, last, numbers>>
     /\ UNCHANGED people

\* Mutant: any plan may be deleted.
DeletableAny(a) == TRUE

\* A plan that belongs to a loan is kept for as long as the loan exists.
Deletable(a) == plans[a].debt = None

\* amortization_plan_detail_view.
DeletePlan(p) ==
  /\ Free(p) /\ IsMember(p)
  /\ \E a \in DOMAIN plans :
       plans[a].org = member[p].org /\ Deletable(a) /\ Keep(p, [kind |-> "unplan", id |-> a])
  /\ UNCHANGED <<ledger, people>>

PlanDeleted(p) ==
  /\ Serving(p, "unplan")
  /\ plans' = Without(plans, {req[p].id})
  /\ UNCHANGED <<clients, debts, payments, docs, nextId, last, numbers, people>>

\* issue_document.  The client, the loan and the payment are each looked up in the
\* organization, and need not belong together.
Issue(p) ==
  LET org == member[p].org
      Within(table) == {i \in DOMAIN table : table[i].org = org}
  IN /\ Free(p) /\ IsMember(p) /\ Room(1)
     /\ \E type \in Types, c \in Within(clients), d \in Within(debts) \cup {None},
           i \in Within(payments) \cup {None} :
          Draw(p, "issue", <<org, type>>, [client |-> c, debt |-> d, payment |-> i])

Issued(p) ==
  LET r == req[p]
  IN /\ Commit(p, "issue")
     /\ docs' = Put(docs, nextId, [org |-> r.counter[1], type |-> r.counter[2], number |-> r.number,
                                   client |-> r.cited.client, debt |-> r.cited.debt,
                                   payment |-> r.cited.payment])
     /\ nextId' = nextId + 1
     /\ UNCHANGED <<clients, debts, payments, plans>>

Reading(p) ==
  \/ CreateStaff(p) \/ UpdateStaff(p) \/ RemoveStaff(p)
  \/ DeleteDebts(p) \/ DeleteClient(p) \/ SavePlan(p) \/ DeletePlan(p)
  \/ Lost(p)

Staffing(p) ==
  \/ Register(p) \/ Found(p) \/ StaffCreated(p) \/ StaffUpdated(p) \/ StaffRemoved(p)

Lending(p) ==
  \/ CreateClient(p) \/ Pay(p) \/ DebtsDeleted(p) \/ ClientDeleted(p)
  \/ PlanSaved(p) \/ PlanDeleted(p)
  \/ Lend(p) \/ Issue(p)

Ending(p) == Lent(p) \/ Issued(p) \/ RolledBack(p)

Next ==
  \E p \in People : Reading(p) \/ Ending(p) \/ (Unlocked /\ (Staffing(p) \/ Lending(p)))

Spec == Init /\ [][Next]_vars

-----------------------------------------------------------------------------
(* Properties.                                                             *)

\* The documents of a type and the loans that were made are numbered 1, 2, 3 and so on in
\* the order of their making: a transaction that fails after drawing its number leaves no
\* gap, one that overlaps it gets no number twice, and deleting rows frees none.
\* DocumentSequence: "must not collide or skip".
NumbersIssuedOnce ==
  \A k \in Counters : numbers[k] = [n \in 1..Len(numbers[k]) |-> n]

\* Every loan of an organization has exactly one plan, of its client, until the loan goes.
LoansKeepPlans ==
  \A d \in DOMAIN debts : debts[d].org # NoOrg =>
    \E a \in DOMAIN plans :
      /\ plans[a] = [org |-> debts[d].org, client |-> debts[d].client, debt |-> d]
      /\ \A b \in DOMAIN plans : plans[b].debt = d => b = a

\* No row cites one that is gone, whichever deletions and requests that read before them
\* overlap, and a payment has the client of its loan: delete_client looks for everything
\* that could cite the client, its loans or their payments, so nothing refuses it.
NothingDangles ==
  LET Client(c) == c \in DOMAIN clients
      Debt(d) == d \in DOMAIN debts \cup {None}
  IN /\ \A d \in DOMAIN debts : Client(debts[d].client)
     /\ \A i \in DOMAIN payments :
          payments[i].debt \in DOMAIN debts /\ payments[i].client = debts[payments[i].debt].client
     /\ \A a \in DOMAIN plans : Client(plans[a].client) /\ Debt(plans[a].debt)
     /\ \A x \in DOMAIN docs :
          Client(docs[x].client) /\ Debt(docs[x].debt) /\ docs[x].payment \in DOMAIN payments \cup {None}

\* An organization is left without an owner only after an owner gave up the role, or was
\* demoted or removed by someone who had stopped being one since the request was let in.
OwnerRemains == \A org \in orgs \ astray : Owners(org) # {}
==============================================================================
