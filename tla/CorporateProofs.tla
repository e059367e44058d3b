--------------------------- MODULE CorporateProofs ---------------------------
(***************************************************************************)
(* For any people, types of document and bounds: an organization keeps an *)
(* owner, loans and documents are numbered once each and without a gap, a  *)
(* loan keeps its plan, and no row cites one that is gone.  Each has an    *)
(* inductive invariant of its own:                                         *)
(*   - owners: who is being removed is not who removes, and whoever has no *)
(*     account or is about to found an organization belongs to none;       *)
(*   - numbers: one transaction holds the lock, its number is the last one *)
(*     drawn, and all numbers before it have been made;                    *)
(*   - plans: ids are not used twice, and a request that deletes a plan    *)
(*     has found it without a loan, which it then never gets;              *)
(*   - citations: what an open transaction has looked up is still there,   *)
(*     because nothing else is written while it holds the lock.            *)
(***************************************************************************)
EXTENDS Corporate, TLAPS

Roles == {"owner", "staff"}

\* A request that is about to write carries what its first step has checked.
Request(r, p) ==
  /\ r.kind = "found" => p \in account /\ member[p] = NoMember
  /\ r.kind = "create" => r.who \in People /\ r.role \in Roles /\ r.org \in People
  /\ r.kind = "update" => r.who \in People /\ r.role \in Roles
  /\ r.kind = "remove" => r.who \in People /\ r.who # p /\ r.org \in People

StaffTypeOK ==
  /\ account \subseteq People /\ orgs \subseteq People
  /\ member \in [People -> {NoMember} \cup [org : People, role : Roles]]
  /\ req = [p \in People |-> req[p]]

StaffInv ==
  /\ StaffTypeOK
  /\ \A p \in People : p \notin account => member[p] = NoMember
  /\ \A p \in People : Request(req[p], p)

-----------------------------------------------------------------------------

\* Only NoMember lacks an organization.
LEMMA OwnerIsMember ==
  ASSUME StaffTypeOK, NEW p \in People, NEW org, Owns(p, org)
  PROVE  org \in People /\ member[p].org = org /\ member[p] # NoMember
BY CorporateAssumption DEF StaffTypeOK, Owns, NoMember, Roles

\* What a request keeps is known of it alone.
LEMMA Kept ==
  ASSUME StaffTypeOK, NEW p \in People, NEW r, Keep(p, r)
  PROVE  /\ req' = [q \in People |-> req'[q]]
         /\ \A q \in People : req'[q] = IF q = p THEN r ELSE req[q]
BY DEF StaffTypeOK, Keep

LEMMA StaffInit == Init => StaffInv
BY DEF Init, StaffInv, StaffTypeOK, Request, Idle

\* Steps that touch neither people nor the requests about them.
LEMMA StaffAside ==
  ASSUME StaffInv, NEW p \in People, UNCHANGED <<account, orgs, member>>,
         NEW r, Keep(p, r), r.kind \notin {"found", "create", "update", "remove"}
  PROVE  StaffInv'
BY Kept DEF StaffInv, StaffTypeOK, Request

\* The steps that leave people and their organizations alone.
Lends(p) ==
  \/ DeleteDebts(p) \/ DeleteClient(p) \/ SavePlan(p) \/ DeletePlan(p)
  \/ Lending(p) \/ Ending(p)

LEMMA LendsAside ==
  ASSUME NEW p \in People, Lends(p)
  PROVE  /\ UNCHANGED people
         /\ UNCHANGED req \/ \E r : Keep(p, r) /\ r.kind \notin {"found", "create", "update", "remove"}
<1>1. CASE DeleteDebts(p)
  BY <1>1 DEF DeleteDebts
<1>2. CASE DeleteClient(p)
  BY <1>2 DEF DeleteClient
<1>3. CASE SavePlan(p)
  BY <1>3 DEF SavePlan
<1>4. CASE DeletePlan(p)
  BY <1>4 DEF DeletePlan
<1>5. CASE CreateClient(p) \/ Pay(p)
  BY <1>5 DEF CreateClient, Pay
<1>6. CASE DebtsDeleted(p) \/ ClientDeleted(p) \/ PlanSaved(p) \/ PlanDeleted(p)
  BY <1>6 DEF DebtsDeleted, ClientDeleted, PlanSaved, PlanDeleted, Serving, Idle
<1>7. CASE Lend(p)
  BY <1>7 DEF Lend, Draw
<1>8. CASE Issue(p)
  BY <1>8 DEF Issue, Draw
<1>9. CASE Ending(p)
  BY <1>9 DEF Ending, Lent, Issued, RolledBack, Commit, Serving, Idle
<1> QED
  BY <1>1, <1>2, <1>3, <1>4, <1>5, <1>6, <1>7, <1>8, <1>9 DEF Lends, Lending

LEMMA StaffStep == StaffInv /\ [Next]_vars => StaffInv'
<1> SUFFICES ASSUME StaffInv, [Next]_vars PROVE StaffInv'
  OBVIOUS
<1>0. CASE UNCHANGED vars
  BY <1>0 DEF vars, ledger, people, StaffInv, StaffTypeOK, Request
<1>1. ASSUME NEW p \in People, Register(p) PROVE StaffInv'
  <2>1. member[p] = NoMember /\ p \in account' /\ UNCHANGED <<orgs, member>>
    BY <1>1 DEF Register, StaffInv
  <2>2. PICK r \in {Idle, [kind |-> "found"]} : Keep(p, r)
    BY <1>1 DEF Register
  <2>3. Request(r, p)'
    BY <2>1, <2>2 DEF Request, Idle
  <2> QED
    BY <1>1, <2>1, <2>2, <2>3, Kept DEF Register, StaffInv, StaffTypeOK, Request
<1>2. ASSUME NEW p \in People, Found(p) PROVE StaffInv'
  <2>1. p \in account /\ member[p] = NoMember /\ Keep(p, Idle)
    BY <1>2 DEF Found, Serving, StaffInv, Request
  <2>2. member' \in [People -> {NoMember} \cup [org : People, role : Roles]]
    BY <1>2 DEF Found, StaffInv, StaffTypeOK, Roles
  <2>3. \A q \in People : q # p => member'[q] = member[q]
    BY <1>2 DEF Found, StaffInv, StaffTypeOK
  <2> QED
    BY <1>2, <2>1, <2>2, <2>3, Kept DEF Found, StaffInv, StaffTypeOK, Request, Idle
<1>3. ASSUME NEW p \in People, CreateStaff(p) PROVE StaffInv'
  <2>1. PICK q \in People \ account, role \in Roles :
          Keep(p, [kind |-> "create", who |-> q, role |-> role, org |-> member[p].org])
    BY <1>3 DEF CreateStaff, Roles
  <2>2. member[p].org \in People
    BY <1>3, OwnerIsMember DEF CreateStaff, StaffInv
  <2> QED
    BY <1>3, <2>1, <2>2, Kept DEF CreateStaff, StaffInv, StaffTypeOK, Request
<1>4. ASSUME NEW p \in People, StaffCreated(p) PROVE StaffInv'
  <2>1. req[p].who \in People /\ req[p].role \in Roles /\ req[p].org \in People /\ Keep(p, Idle)
    BY <1>4 DEF StaffCreated, Serving, StaffInv, Request
  <2>2. CASE req[p].who \in account
    BY <1>4, <2>1, <2>2, StaffAside DEF StaffCreated, Idle
  <2>3. CASE req[p].who \notin account
    <3>1. /\ account' = account \cup {req[p].who}
          /\ member' = [member EXCEPT ![req[p].who] = [org |-> req[p].org, role |-> req[p].role]]
          /\ orgs' = orgs
      BY <1>4, <2>3 DEF StaffCreated
    <3>2. member' \in [People -> {NoMember} \cup [org : People, role : Roles]]
      BY <2>1, <3>1 DEF StaffInv, StaffTypeOK
    <3>3. \A q \in People : q # req[p].who => member'[q] = member[q]
      BY <3>1 DEF StaffInv, StaffTypeOK
    <3> QED
      BY <2>1, <2>3, <3>1, <3>2, <3>3, Kept DEF StaffInv, StaffTypeOK, Request, Idle
  <2> QED
    BY <2>2, <2>3
<1>5. ASSUME NEW p \in People, UpdateStaff(p) PROVE StaffInv'
  <2>1. PICK q \in People, role \in Roles : Keep(p, [kind |-> "update", who |-> q, role |-> role])
    BY <1>5 DEF UpdateStaff, Roles
  <2> QED
    BY <1>5, <2>1, Kept DEF UpdateStaff, StaffInv, StaffTypeOK, Request
<1>6. ASSUME NEW p \in People, StaffUpdated(p) PROVE StaffInv'
  <2>1. req[p].who \in People /\ req[p].role \in Roles /\ Keep(p, Idle)
    BY <1>6 DEF StaffUpdated, Serving, StaffInv, Request
  <2>2. CASE ~IsMember(req[p].who)
    BY <1>6, <2>1, <2>2, StaffAside DEF StaffUpdated, Idle
  <2>3. CASE IsMember(req[p].who)
    <3>1. member' = [member EXCEPT ![req[p].who].role = req[p].role] /\ UNCHANGED <<account, orgs>>
      BY <1>6, <2>3 DEF StaffUpdated
    <3>2. member[req[p].who] \in [org : People, role : Roles]
      BY <2>1, <2>3 DEF IsMember, StaffInv, StaffTypeOK
    <3>3. member' \in [People -> {NoMember} \cup [org : People, role : Roles]]
      BY <2>1, <3>1, <3>2 DEF StaffInv, StaffTypeOK
    <3>4. \A q \in People : member[q] = NoMember => member'[q] = NoMember
      BY <2>3, <3>1 DEF IsMember, StaffInv, StaffTypeOK
    <3> QED
      BY <2>1, <3>1, <3>3, <3>4, Kept DEF StaffInv, StaffTypeOK, Request, Idle
  <2> QED
    BY <2>2, <2>3
<1>7. ASSUME NEW p \in People, RemoveStaff(p) PROVE StaffInv'
  <2>1. PICK q \in People : p # q /\ Keep(p, [kind |-> "remove", who |-> q, org |-> member[p].org])
    BY <1>7 DEF RemoveStaff, NotSelf
  <2>2. member[p].org \in People
    BY <1>7, OwnerIsMember DEF RemoveStaff, StaffInv
  <2> QED
    BY <1>7, <2>1, <2>2, Kept DEF RemoveStaff, StaffInv, StaffTypeOK, Request
<1>8. ASSUME NEW p \in People, StaffRemoved(p) PROVE StaffInv'
  <2>1. Keep(p, Idle) /\ UNCHANGED <<account, orgs>>
    BY <1>8 DEF StaffRemoved, Serving
  <2>2. member' \in [People -> {NoMember} \cup [org : People, role : Roles]]
    BY <1>8 DEF StaffRemoved, StaffInv, StaffTypeOK
  <2>3. \A q \in People : member[q] = NoMember => member'[q] = NoMember
    BY <1>8 DEF StaffRemoved, StaffInv, StaffTypeOK
  <2> QED
    BY <2>1, <2>2, <2>3, Kept DEF StaffInv, StaffTypeOK, Request, Idle
<1>9. ASSUME NEW p \in People, Lost(p) PROVE StaffInv'
  BY <1>9, StaffAside DEF Lost, people, Idle
<1>10. ASSUME NEW p \in People, Lends(p) PROVE StaffInv'
  <2>1. UNCHANGED <<account, orgs, member>>
    BY <1>10, LendsAside DEF people
  <2>2. CASE UNCHANGED req
    BY <2>1, <2>2 DEF StaffInv, StaffTypeOK, Request
  <2>3. CASE \E r : Keep(p, r) /\ r.kind \notin {"found", "create", "update", "remove"}
    BY <2>1, <2>3, StaffAside
  <2> QED
    BY <1>10, <2>2, <2>3, LendsAside
<1> QED
  BY <1>0, <1>1, <1>2, <1>3, <1>4, <1>5, <1>6, <1>7, <1>8, <1>9, <1>10
     DEF Next, Staffing, Reading, Lends

\* What a request keeps once it has read, or written about people, is no transaction, and
\* no deletion of a plan but that of DeletePlan.
LEMMA ReadingKeeps ==
  ASSUME NEW p \in People, Reading(p)
  PROVE  \E r : /\ Keep(p, r) /\ r.kind \notin {"lend", "issue"}
                /\ r.kind = "unplan" => DeletePlan(p)
<1>1. CASE CreateStaff(p)
  BY <1>1 DEF CreateStaff
<1>2. CASE UpdateStaff(p)
  BY <1>2 DEF UpdateStaff
<1>3. CASE RemoveStaff(p)
  BY <1>3 DEF RemoveStaff
<1>4. CASE DeleteDebts(p)
  BY <1>4 DEF DeleteDebts
<1>5. CASE DeleteClient(p)
  BY <1>5 DEF DeleteClient
<1>6. CASE SavePlan(p)
  BY <1>6 DEF SavePlan
<1>7. CASE DeletePlan(p)
  BY <1>7 DEF DeletePlan
<1>8. CASE Lost(p)
  BY <1>8 DEF Lost, Idle
<1> QED
  BY <1>1, <1>2, <1>3, <1>4, <1>5, <1>6, <1>7, <1>8 DEF Reading

LEMMA StaffingKeeps ==
  ASSUME NEW p \in People, Staffing(p)
  PROVE  \E r : Keep(p, r) /\ r.kind \notin {"lend", "issue", "unplan"}
BY DEF Staffing, Register, Found, StaffCreated, StaffUpdated, StaffRemoved, Serving, Idle

LEMMA StaffAlways == Spec => []StaffInv
BY StaffInit, StaffStep, PTL DEF Spec

-----------------------------------------------------------------------------
(* Owners.                                                                 *)

LEMMA OwnersInit == Init => OwnerRemains
BY DEF Init, OwnerRemains

\* Whoever takes the role from an owner is an owner still, or the organization is astray.
LEMMA OwnersStep == StaffInv /\ OwnerRemains /\ [Next]_vars => OwnerRemains'
<1> SUFFICES ASSUME StaffInv, OwnerRemains, [Next]_vars PROVE OwnerRemains'
  OBVIOUS
<1>0. ASSUME UNCHANGED people PROVE OwnerRemains'
  BY <1>0 DEF people, OwnerRemains, Owners, Owns
<1>1. ASSUME UNCHANGED <<orgs, astray>>, NEW q \in People, member[q] = NoMember,
             \A p \in People : p # q => member'[p] = member[p]
      PROVE  OwnerRemains'
  BY <1>1 DEF OwnerRemains, Owners, Owns, NoMember
<1>2. ASSUME UNCHANGED orgs, astray \subseteq astray', NEW q \in People,
             \A p \in People : p # q => member'[p] = member[p],
             \A org : Owns(q, org) /\ org \notin astray' =>
               \/ member'[q] = [org |-> org, role |-> "owner"]
               \/ \E p \in People \ {q} : Owns(p, org)
      PROVE  OwnerRemains'
  BY <1>2 DEF OwnerRemains, Owners, Owns
<1>3. ASSUME NEW p \in People, Register(p) PROVE OwnerRemains'
  BY <1>3 DEF Register, OwnerRemains, Owners, Owns
<1>4. ASSUME NEW p \in People, Found(p) PROVE OwnerRemains'
  <2>1. member[p] = NoMember /\ orgs' = orgs \cup {p} /\ UNCHANGED astray
    BY <1>4 DEF Found, Serving, StaffInv, Request
  <2>2. member' = [member EXCEPT ![p] = [org |-> p, role |-> "owner"]]
    BY <1>4 DEF Found
  <2>3. Owns(p, p)' /\ \A q \in People : q # p => member'[q] = member[q]
    BY <2>2 DEF Owns, StaffInv, StaffTypeOK
  <2>4. \A org : ~Owns(p, org)
    BY <2>1 DEF Owns, NoMember
  <2> QED
    BY <2>1, <2>3, <2>4 DEF OwnerRemains, Owners, Owns
<1>5. ASSUME NEW p \in People, StaffCreated(p) PROVE OwnerRemains'
  <2>1. CASE req[p].who \in account
    BY <1>5, <2>1 DEF StaffCreated, OwnerRemains, Owners, Owns
  <2>2. CASE req[p].who \notin account
    <3>1. req[p].who \in People
      BY <1>5 DEF StaffCreated, Serving, StaffInv, Request
    <3>2. /\ member[req[p].who] = NoMember
          /\ UNCHANGED <<orgs, astray>>
          /\ \A q \in People : q # req[p].who => member'[q] = member[q]
      BY <1>5, <2>2, <3>1 DEF StaffCreated, StaffInv, StaffTypeOK
    <3> QED
      BY <1>1, <3>1, <3>2
  <2> QED
    BY <2>1, <2>2
<1>6. ASSUME NEW p \in People, StaffUpdated(p) PROVE OwnerRemains'
  <2> DEFINE q == req[p].who
  <2>1. q \in People /\ UNCHANGED orgs
    BY <1>6 DEF StaffUpdated, Serving, StaffInv, Request
  <2>2. CASE ~IsMember(q)
    BY <1>6, <2>2 DEF StaffUpdated, OwnerRemains, Owners, Owns
  <2>3. CASE IsMember(q)
    <3>1. member' = [member EXCEPT ![q].role = req[p].role]
      BY <1>6, <2>3 DEF StaffUpdated
    <3>2. \A x \in People : x # q => member'[x] = member[x]
      BY <2>1, <3>1 DEF StaffInv, StaffTypeOK
    <3>3. member[q] \in [org : People, role : Roles]
      BY <2>1, <2>3 DEF IsMember, StaffInv, StaffTypeOK
    <3>4. CASE req[p].role = "owner"
      <4>1. astray' = astray
        BY <1>6, <2>3, <3>4 DEF StaffUpdated
      <4>2. \A org : Owns(q, org) => member'[q] = [org |-> org, role |-> "owner"]
        BY <2>1, <3>1, <3>3, <3>4 DEF Owns, StaffInv, StaffTypeOK
      <4> QED
        BY <1>2, <2>1, <3>2, <4>1, <4>2
    <3>5. CASE req[p].role # "owner"
      <4>1. astray' = IF p = q THEN astray \cup {member[q].org} ELSE Strayed(p, q, member[q].org)
        BY <1>6, <2>3, <3>5 DEF StaffUpdated
      <4>2. astray \subseteq astray'
        BY <4>1 DEF Strayed
      <4>3. ASSUME NEW org, Owns(q, org), org \notin astray' PROVE \E x \in People \ {q} : Owns(x, org)
        <5>1. member[q].org = org
          BY <2>1, <4>3, OwnerIsMember DEF StaffInv
        <5>2. p # q /\ Owns(p, org)
          BY <4>1, <4>3, <5>1 DEF Strayed
        <5> QED
          BY <5>2
      <4> QED
        BY <1>2, <2>1, <3>2, <4>2, <4>3
    <3> QED
      BY <3>4, <3>5
  <2> QED
    BY <2>2, <2>3
<1>7. ASSUME NEW p \in People, StaffRemoved(p) PROVE OwnerRemains'
  <2> DEFINE q == req[p].who
  <2>1. q \in People /\ q # p /\ UNCHANGED orgs
    BY <1>7 DEF StaffRemoved, Serving, StaffInv, Request
  <2>2. CASE member[q].org # req[p].org
    BY <1>7, <2>2 DEF StaffRemoved, OwnerRemains, Owners, Owns
  <2>3. CASE member[q].org = req[p].org
    <3>1. member' = [member EXCEPT ![q] = NoMember] /\ astray' = Strayed(p, q, req[p].org)
      BY <1>7, <2>3 DEF StaffRemoved
    <3>2. \A x \in People : x # q => member'[x] = member[x]
      BY <3>1 DEF StaffInv, StaffTypeOK
    <3>3. astray \subseteq astray'
      BY <3>1 DEF Strayed
    <3>4. ASSUME NEW org, Owns(q, org), org \notin astray' PROVE \E x \in People \ {q} : Owns(x, org)
      <4>1. org = req[p].org
        BY <2>1, <2>3, <3>4, OwnerIsMember DEF StaffInv
      <4>2. Owns(p, org)
        BY <3>1, <3>4, <4>1 DEF Strayed
      <4> QED
        BY <2>1, <4>2
    <3> QED
      BY <1>2, <2>1, <3>2, <3>3, <3>4
  <2> QED
    BY <2>2, <2>3
<1>8. ASSUME NEW p \in People, CreateStaff(p) \/ UpdateStaff(p) \/ RemoveStaff(p) \/ Lost(p)
      PROVE  OwnerRemains'
  BY <1>8 DEF CreateStaff, UpdateStaff, RemoveStaff, Lost, people, OwnerRemains, Owners, Owns
<1>9. ASSUME NEW p \in People, Lends(p) PROVE OwnerRemains'
  BY <1>0, <1>9, LendsAside
<1>10. CASE UNCHANGED vars
  BY <1>0, <1>10 DEF vars
<1> QED
  BY <1>3, <1>4, <1>5, <1>6, <1>7, <1>8, <1>9, <1>10 DEF Next, Staffing, Reading, Lends

\* An organization keeps an owner, however its owners' requests interleave and whatever
\* requests die, but for the two ways OwnerRemains names (require_owner_role,
\* update_staff_account, remove_staff_account).
THEOREM OwnersRemain == Spec => []OwnerRemains
BY OwnersInit, OwnersStep, StaffAlways, PTL DEF Spec

-----------------------------------------------------------------------------
(* Numbers.                                                                *)

\* The number drawn from k by the transaction that holds the lock is not made yet.
Drawn(k) == \E p \in People : Writing(p) /\ req[p].counter = k
Made(k) == IF Drawn(k) THEN last[k] - 1 ELSE last[k]

NumbersInv ==
  /\ last \in [Counters -> Nat]
  /\ \A p \in People : Writing(p) =>
       /\ req[p].counter \in Counters
       /\ req[p].number = last[req[p].counter] /\ req[p].number > 0
       /\ \A q \in People : Writing(q) => q = p
  /\ numbers = [k \in Counters |-> [n \in 1..Made(k) |-> n]]

LEMMA NumbersInit == Init => NumbersInv
<1> SUFFICES ASSUME Init PROVE NumbersInv
  OBVIOUS
<1>1. \A p \in People : ~Writing(p)
  BY DEF Init, Writing, Idle
<1>2. \A k \in Counters : Made(k) = 0 /\ numbers[k] = [n \in 1..0 |-> n]
  BY <1>1 DEF Init, Made, Drawn
<1>3. numbers = [k \in Counters |-> numbers[k]]
  BY DEF Init
<1> QED
  BY <1>1, <1>2, <1>3 DEF Init, NumbersInv

\* Steps of others than the one who holds the lock.
LEMMA NumbersAside ==
  ASSUME NumbersInv, UNCHANGED <<last, numbers>>,
         \A p \in People : Writing(p) \/ Writing(p)' => req'[p] = req[p]
  PROVE  NumbersInv'
<1>1. \A p \in People : Writing(p)' <=> Writing(p)
  BY DEF Writing
<1>2. \A p \in People : Writing(p) => req'[p] = req[p]
  OBVIOUS
<1>3. \A k \in Counters : Drawn(k)' <=> Drawn(k)
  BY <1>1, <1>2 DEF Drawn
<1>4. \A k \in Counters : Made(k)' = Made(k)
  BY <1>3 DEF Made
<1> QED
  BY <1>1, <1>2, <1>4 DEF NumbersInv

\* What p keeps that is no transaction, while p holds no lock, is such a step.
LEMMA NumbersKept ==
  ASSUME StaffInv, NumbersInv, UNCHANGED <<last, numbers>>, NEW p \in People, ~Writing(p),
         NEW r, Keep(p, r), r.kind \notin {"lend", "issue"}
  PROVE  NumbersInv'
<1>1. \A q \in People : req'[q] = IF q = p THEN r ELSE req[q]
  BY Kept DEF StaffInv
<1>2. \A q \in People : Writing(q) \/ Writing(q)' => req'[q] = req[q]
  BY <1>1 DEF Writing
<1> QED
  BY <1>2, NumbersAside

LEMMA NumberDrawn ==
  ASSUME StaffInv, NumbersInv, Unlocked, NEW p \in People, NEW kind \in {"lend", "issue"},
         NEW k \in Counters, NEW cited, Draw(p, kind, k, cited)
  PROVE  NumbersInv'
<1> DEFINE r == [kind |-> kind, counter |-> k, number |-> last[k] + 1, cited |-> cited]
<1>1. last' = [last EXCEPT ![k] = last[k] + 1] /\ Keep(p, r) /\ numbers' = numbers
  BY DEF Draw, Following
<1>2. last' \in [Counters -> Nat] /\ last'[k] = last[k] + 1 /\ \A j \in Counters : j # k => last'[j] = last[j]
  BY <1>1 DEF NumbersInv
<1>3. \A q \in People : req'[q] = IF q = p THEN r ELSE req[q]
  BY <1>1, Kept DEF StaffInv
<1>4. \A q \in People : Writing(q)' <=> q = p
  BY <1>3 DEF Writing, Unlocked
<1>5. \A j \in Counters : ~Drawn(j) /\ (Drawn(j)' <=> j = k)
  BY <1>3, <1>4 DEF Drawn, Unlocked
<1>6. \A j \in Counters : Made(j) = last[j]
  BY <1>5 DEF Made
<1>7. ASSUME NEW j \in Counters PROVE Made(j)' = last[j]
  BY <1>2, <1>5, <1>7 DEF Made, NumbersInv
<1>8. numbers' = [j \in Counters |-> [n \in 1..Made(j)' |-> n]]
  BY <1>1, <1>6, <1>7 DEF NumbersInv
<1>9. last[k] \in Nat
  BY DEF NumbersInv
<1> QED
  BY <1>2, <1>3, <1>4, <1>8, <1>9 DEF NumbersInv

\* The number drawn last is the one made next.
LEMMA NumberMade ==
  ASSUME StaffInv, NumbersInv, NEW p \in People, NEW kind \in {"lend", "issue"}, Commit(p, kind)
  PROVE  NumbersInv'
<1> DEFINE k == req[p].counter
<1>1. Writing(p) /\ Keep(p, Idle) /\ last' = last
  BY DEF Commit, Serving, Writing
<1>2. /\ k \in Counters /\ last[k] \in Nat /\ last[k] > 0 /\ req[p].number = last[k]
      /\ \A q \in People : Writing(q) => q = p
  BY <1>1 DEF NumbersInv
<1>3. numbers' = [numbers EXCEPT ![k] = Append(numbers[k], last[k])]
  BY <1>2 DEF Commit
<1>4. \A q \in People : req'[q] = IF q = p THEN Idle ELSE req[q]
  BY <1>1, Kept DEF StaffInv
<1>5. \A q \in People : ~Writing(q)'
  BY <1>2, <1>4 DEF Writing, Idle
<1>6. \A j \in Counters : Made(j)' = last[j]
  BY <1>1, <1>5 DEF Made, Drawn
<1>7. Made(k) = last[k] - 1 /\ \A j \in Counters : j # k => Made(j) = last[j]
  BY <1>1, <1>2 DEF Made, Drawn
<1>8. Append(numbers[k], last[k]) = [n \in 1..last[k] |-> n]
  <2>1. last[k] - 1 \in Nat
    BY <1>2
  <2>2. numbers[k] = [n \in 1..(last[k] - 1) |-> n]
    BY <1>2, <1>7 DEF NumbersInv
  <2>3. numbers[k] \in Seq(Nat) /\ Len(numbers[k]) = last[k] - 1
    BY <2>1, <2>2
  <2> QED
    BY <1>2, <2>1, <2>2, <2>3
<1>9. ASSUME NEW j \in Counters PROVE numbers'[j] = [n \in 1..Made(j)' |-> n]
  <2>1. CASE j = k
    BY <1>3, <1>6, <1>8, <2>1 DEF NumbersInv
  <2>2. CASE j # k
    BY <1>3, <1>6, <1>7, <2>2 DEF NumbersInv
  <2> QED
    BY <2>1, <2>2
<1>10. numbers' = [j \in Counters |-> numbers'[j]]
  BY <1>3 DEF NumbersInv
<1>11. last' \in [Counters -> Nat]
  BY <1>1 DEF NumbersInv
<1> QED
  BY <1>5, <1>9, <1>10, <1>11 DEF NumbersInv

\* A transaction that fails puts the counter back where the numbers made have come to.
LEMMA NumberRolledBack ==
  ASSUME StaffInv, NumbersInv, NEW p \in People, RolledBack(p)
  PROVE  NumbersInv'
<1> DEFINE k == req[p].counter
<1>1. Writing(p) /\ Keep(p, Idle) /\ numbers' = numbers
  BY DEF RolledBack
<1>2. /\ k \in Counters /\ last[k] \in Nat /\ last[k] > 0 /\ req[p].number = last[k]
      /\ \A q \in People : Writing(q) => q = p
  BY <1>1 DEF NumbersInv
<1>3. last' = [last EXCEPT ![k] = last[k] - 1]
  BY <1>2 DEF RolledBack
<1>4. last' \in [Counters -> Nat] /\ last'[k] = last[k] - 1 /\ \A j \in Counters : j # k => last'[j] = last[j]
  BY <1>2, <1>3 DEF NumbersInv
<1>5. \A q \in People : req'[q] = IF q = p THEN Idle ELSE req[q]
  BY <1>1, Kept DEF StaffInv
<1>6. \A q \in People : ~Writing(q)'
  BY <1>2, <1>5 DEF Writing, Idle
<1>7. \A j \in Counters : Made(j)' = last'[j]
  BY <1>6 DEF Made, Drawn
<1>8. \A j \in Counters : Made(j) = IF j = k THEN last[j] - 1 ELSE last[j]
  BY <1>1, <1>2 DEF Made, Drawn
<1>9. \A j \in Counters : Made(j)' = Made(j)
  BY <1>4, <1>7, <1>8
<1> QED
  BY <1>1, <1>4, <1>6, <1>9 DEF NumbersInv

LEMMA NumbersStep == StaffInv /\ NumbersInv /\ [Next]_vars => NumbersInv'
<1> SUFFICES ASSUME StaffInv, NumbersInv, [Next]_vars PROVE NumbersInv'
  OBVIOUS
<1>1. CASE UNCHANGED vars
  BY <1>1, NumbersAside DEF vars, ledger
<1>2. ASSUME NEW p \in People, Reading(p) PROVE NumbersInv'
  <2>1. UNCHANGED <<last, numbers>> /\ ~Writing(p)
    BY <1>2 DEF Reading, CreateStaff, UpdateStaff, RemoveStaff, DeleteDebts, DeleteClient, SavePlan,
                DeletePlan, Lost, ledger, Free, Idle, Writing
  <2>2. PICK r : /\ Keep(p, r) /\ r.kind \notin {"lend", "issue"}
                 /\ r.kind = "unplan" => DeletePlan(p)
    BY <1>2, ReadingKeeps
  <2> QED
    BY <2>1, <2>2, NumbersKept
<1>3. ASSUME NEW p \in People, Unlocked, Staffing(p) PROVE NumbersInv'
  <2>1. UNCHANGED <<last, numbers>> /\ ~Writing(p)
    BY <1>3 DEF Staffing, Register, Found, StaffCreated, StaffUpdated, StaffRemoved, ledger, Unlocked
  <2>2. PICK r : Keep(p, r) /\ r.kind \notin {"lend", "issue"}
    BY <1>3, StaffingKeeps
  <2> QED
    BY <2>1, <2>2, NumbersKept
<1>4. ASSUME NEW p \in People, CreateClient(p) \/ Pay(p) PROVE NumbersInv'
  BY <1>4, NumbersAside DEF CreateClient, Pay
<1>5. ASSUME NEW p \in People, DebtsDeleted(p) \/ ClientDeleted(p) \/ PlanSaved(p) \/ PlanDeleted(p)
      PROVE  NumbersInv'
  <2>1. UNCHANGED <<last, numbers>>
    <3>1. CASE DebtsDeleted(p)
      BY <3>1 DEF DebtsDeleted, ledger
    <3>2. CASE ClientDeleted(p)
      BY <3>2 DEF ClientDeleted, ledger
    <3>3. CASE PlanSaved(p) \/ PlanDeleted(p)
      BY <3>3 DEF PlanSaved, PlanDeleted, ledger
    <3> QED
      BY <1>5, <3>1, <3>2, <3>3
  <2>2. ~Writing(p) /\ Keep(p, Idle)
    BY <1>5 DEF DebtsDeleted, ClientDeleted, PlanSaved, PlanDeleted, Serving, Writing
  <2> QED
    BY <2>1, <2>2, NumbersKept DEF Idle
<1>6. ASSUME NEW p \in People, Unlocked, Lend(p) PROVE NumbersInv'
  <2>1. PICK c : Draw(p, "lend", Reference, c)
    BY <1>6 DEF Lend
  <2>2. Reference \in Counters
    BY DEF Counters
  <2> QED
    BY <1>6, <2>1, <2>2, NumberDrawn
<1>7. ASSUME NEW p \in People, Unlocked, Issue(p) PROVE NumbersInv'
  <2>1. member[p].org \in People
    BY <1>7 DEF Issue, IsMember, StaffInv, StaffTypeOK
  <2>2. PICK type \in Types : \E cited : Draw(p, "issue", <<member[p].org, type>>, cited)
    BY <1>7 DEF Issue
  <2>3. <<member[p].org, type>> \in Counters
    BY <2>1, <2>2 DEF Counters
  <2> QED
    BY <1>7, <2>2, <2>3, NumberDrawn
<1>8. ASSUME NEW p \in People, Ending(p) PROVE NumbersInv'
  BY <1>8, NumberMade, NumberRolledBack DEF Ending, Lent, Issued
<1> QED
  BY <1>1, <1>2, <1>3, <1>4, <1>5, <1>6, <1>7, <1>8 DEF Next, Lending

LEMMA NumbersAlways == Spec => []NumbersInv
BY NumbersInit, NumbersStep, StaffAlways, PTL DEF Spec

\* The loans and the documents of each type are numbered 1, 2, 3 and so on, whoever makes
\* them, whichever transactions fail half way and whatever is deleted
\* (next_document_number, next_reference, create_debt, issue_document).
THEOREM NumbersOnce == Spec => []NumbersIssuedOnce
<1>1. ASSUME NumbersInv PROVE NumbersIssuedOnce
  <2> SUFFICES ASSUME NEW k \in Counters PROVE numbers[k] = [n \in 1..Len(numbers[k]) |-> n]
    BY DEF NumbersIssuedOnce
  <2>1. Made(k) \in Nat
    BY <1>1 DEF NumbersInv, Made, Drawn
  <2>2. numbers[k] = [n \in 1..Made(k) |-> n]
    BY <1>1 DEF NumbersInv
  <2>3. Len(numbers[k]) = Made(k)
    BY <2>1, <2>2
  <2> QED
    BY <2>2, <2>3
<1> QED
  BY <1>1, NumbersAlways, PTL
-----------------------------------------------------------------------------
(* Plans.                                                                  *)

Table(rows) == /\ rows = [i \in DOMAIN rows |-> rows[i]]
               /\ \A i \in DOMAIN rows : i \in Nat /\ 0 < i /\ i < nextId

\* A plan is found without a loan, and will not get one.
Unplanning(r) ==
  r.kind = "unplan" /\ r.id \in DOMAIN plans => plans[r.id].debt = None

PlansInv ==
  /\ nextId \in Nat /\ nextId > 0
  /\ Table(debts) /\ Table(plans)
  /\ \A a \in DOMAIN plans :
       /\ plans[a] = [org |-> plans[a].org, client |-> plans[a].client, debt |-> plans[a].debt]
       /\ plans[a].debt \in DOMAIN debts \cup {None}
  /\ \A p \in People : req[p].kind = "unplan" => req[p].id \in Nat /\ req[p].id < nextId
  /\ \A p \in People : Unplanning(req[p])
  /\ LoansKeepPlans

LEMMA PlansInit == Init => PlansInv
<1> SUFFICES ASSUME Init PROVE PlansInv
  OBVIOUS
<1>1. DOMAIN debts = {} /\ DOMAIN plans = {} /\ nextId = 1
  BY DEF Init
<1>2. debts = [i \in DOMAIN debts |-> debts[i]] /\ plans = [i \in DOMAIN plans |-> plans[i]]
  BY DEF Init
<1>3. \A p \in People : req[p].kind = "idle"
  BY DEF Init, Idle
<1> QED
  BY <1>1, <1>2, <1>3 DEF PlansInv, Table, Unplanning, LoansKeepPlans

\* Steps that leave loans and plans alone.
LEMMA PlansAside ==
  ASSUME StaffInv, PlansInv, UNCHANGED <<debts, plans>>,
         nextId' \in Nat, nextId <= nextId',
         \A p \in People : req'[p] = req[p] \/ req'[p].kind # "unplan"
  PROVE  PlansInv'
<1>1. Table(debts)' /\ Table(plans)'
  BY DEF PlansInv, Table
<1>2. \A p \in People : /\ req'[p].kind = "unplan" => req'[p].id \in Nat /\ req'[p].id < nextId'
                       /\ Unplanning(req[p])'
  BY DEF PlansInv, Unplanning
<1> QED
  BY <1>1, <1>2 DEF PlansInv, LoansKeepPlans

LEMMA Served ==
  ASSUME StaffInv, NEW p \in People, NEW kind, Serving(p, kind)
  PROVE  \A q \in People : req'[q] = req[q] \/ req'[q].kind # "unplan"
BY Kept DEF Serving, Idle, StaffInv

\* Loans go, and the plans in P with them; the others forget them.
LEMMA PlansForget ==
  ASSUME StaffInv, PlansInv, NEW S \in SUBSET DOMAIN debts, NEW P \in SUBSET DOMAIN plans,
         debts' = Without(debts, S),
         plans' = [a \in DOMAIN Without(plans, P) |->
                     IF Without(plans, P)[a].debt \in S THEN [Without(plans, P)[a] EXCEPT !.debt = None]
                     ELSE Without(plans, P)[a]],
         \A d \in DOMAIN debts \ S, a \in P : plans[a].debt = d => debts[d].client # plans[a].client,
         nextId' = nextId,
         \A q \in People : req'[q] = req[q] \/ req'[q].kind # "unplan"
  PROVE  PlansInv'
<1>1. /\ DOMAIN debts' = DOMAIN debts \ S /\ \A d \in DOMAIN debts' : debts'[d] = debts[d]
      /\ debts' = [i \in DOMAIN debts' |-> debts'[i]]
  BY DEF Without
<1>2. /\ DOMAIN Without(plans, P) = DOMAIN plans \ P
      /\ \A a \in DOMAIN plans \ P : Without(plans, P)[a] = plans[a]
  BY DEF Without
<1>3. plans' = [a \in DOMAIN plans \ P |-> IF plans[a].debt \in S THEN [plans[a] EXCEPT !.debt = None] ELSE plans[a]]
  BY <1>2
<1>4. DOMAIN plans' = DOMAIN plans \ P /\ plans' = [i \in DOMAIN plans' |-> plans'[i]]
  BY <1>3
<1>5. \A a \in DOMAIN plans' : plans[a].debt \notin S => plans'[a] = plans[a]
  BY <1>3, <1>4
<1>6. ASSUME NEW a \in DOMAIN plans', plans[a].debt \in S
      PROVE  plans'[a] = [org |-> plans[a].org, client |-> plans[a].client, debt |-> None]
  <2>1. plans[a] = [org |-> plans[a].org, client |-> plans[a].client, debt |-> plans[a].debt]
    BY <1>4, <1>6 DEF PlansInv
  <2>2. plans'[a] = [plans[a] EXCEPT !.debt = None]
    BY <1>3, <1>4, <1>6
  <2> QED
    BY <2>1, <2>2
<1>7. Table(debts)' /\ Table(plans)'
  BY <1>1, <1>4 DEF PlansInv, Table
<1>8. ASSUME NEW a \in DOMAIN plans'
      PROVE  /\ plans'[a] = [org |-> plans'[a].org, client |-> plans'[a].client, debt |-> plans'[a].debt]
             /\ plans'[a].debt \in DOMAIN debts' \cup {None}
  <2>1. CASE plans[a].debt \in S
    <3>1. plans'[a] = [org |-> plans[a].org, client |-> plans[a].client, debt |-> None]
      BY <1>6, <2>1
    <3>2. plans'[a].org = plans[a].org /\ plans'[a].client = plans[a].client /\ plans'[a].debt = None
      BY <3>1
    <3> QED
      BY <3>1, <3>2
  <2>2. CASE plans[a].debt \notin S
    BY <1>1, <1>4, <1>5, <1>8, <2>2 DEF PlansInv
  <2> QED
    BY <2>1, <2>2
<1>9. \A p \in People : /\ req'[p].kind = "unplan" => req'[p].id \in Nat /\ req'[p].id < nextId'
                       /\ Unplanning(req[p])'
  <2>1. None \notin S
    BY DEF PlansInv, Table, None
  <2> QED
    BY <1>4, <1>5, <2>1 DEF PlansInv, Unplanning
<1>10. ASSUME NEW d \in DOMAIN debts', debts'[d].org # NoOrg
       PROVE  \E a \in DOMAIN plans' :
                /\ plans'[a] = [org |-> debts'[d].org, client |-> debts'[d].client, debt |-> d]
                /\ \A b \in DOMAIN plans' : plans'[b].debt = d => b = a
  <2>1. d \in DOMAIN debts \ S /\ debts'[d] = debts[d] /\ d # None
    BY <1>1, <1>10 DEF PlansInv, Table, None
  <2>2. PICK a \in DOMAIN plans :
          /\ plans[a] = [org |-> debts[d].org, client |-> debts[d].client, debt |-> d]
          /\ \A b \in DOMAIN plans : plans[b].debt = d => b = a
    BY <1>10, <2>1 DEF PlansInv, LoansKeepPlans
  <2>3. plans[a].debt = d /\ plans[a].client = debts[d].client
    BY <2>2
  <2>4. a \in DOMAIN plans'
    BY <1>4, <2>1, <2>3
  <2>5. plans'[a] = plans[a]
    BY <1>5, <2>1, <2>3, <2>4
  <2>6. ASSUME NEW b \in DOMAIN plans', plans'[b].debt = d PROVE plans[b].debt = d
    <3>1. CASE plans[b].debt \in S
      <4>1. plans'[b] = [org |-> plans[b].org, client |-> plans[b].client, debt |-> None]
        BY <1>6, <3>1
      <4> QED
        BY <2>1, <2>6, <4>1
    <3>2. CASE plans[b].debt \notin S
      BY <1>5, <2>6, <3>2
    <3> QED
      BY <3>1, <3>2
  <2> QED
    BY <1>4, <2>1, <2>2, <2>4, <2>5, <2>6
<1> QED
  BY <1>7, <1>8, <1>9, <1>10 DEF PlansInv, LoansKeepPlans
LEMMA PlansStep == StaffInv /\ PlansInv /\ [Next]_vars => PlansInv'
<1> SUFFICES ASSUME StaffInv, PlansInv, [Next]_vars PROVE PlansInv'
  OBVIOUS
<1>0. nextId \in Nat /\ nextId + 1 \in Nat /\ nextId + 3 \in Nat
  BY DEF PlansInv
<1>1. CASE UNCHANGED vars
  BY <1>0, <1>1, PlansAside DEF vars, ledger
<1>2. ASSUME NEW p \in People, Staffing(p) PROVE PlansInv'
  <2>1. UNCHANGED <<debts, plans, nextId>>
    BY <1>2 DEF Staffing, Register, Found, StaffCreated, StaffUpdated, StaffRemoved, ledger
  <2>2. \A q \in People : req'[q] = req[q] \/ req'[q].kind # "unplan"
    BY <1>2, StaffingKeeps, Kept DEF StaffInv
  <2> QED
    BY <1>0, <2>1, <2>2, PlansAside
<1>3. ASSUME NEW p \in People, CreateClient(p) \/ Pay(p) PROVE PlansInv'
  BY <1>0, <1>3, PlansAside DEF CreateClient, Pay
<1>4. ASSUME NEW p \in People, Reading(p), ~DeletePlan(p) PROVE PlansInv'
  <2>1. \A q \in People : req'[q] = req[q] \/ req'[q].kind # "unplan"
    BY <1>4, ReadingKeeps, Kept DEF StaffInv
  <2>2. UNCHANGED <<debts, plans, nextId>>
    BY <1>4 DEF Reading, CreateStaff, UpdateStaff, RemoveStaff, DeleteDebts, DeleteClient, SavePlan, Lost,
                ledger
  <2> QED
    BY <1>0, <2>1, <2>2, PlansAside
<1>5. ASSUME NEW p \in People, Lent(p) PROVE PlansInv'
  <2> DEFINE org == member[p].org
             loan == nextId + 1
  <2>1. PICK c : /\ debts' = Put(debts, loan, [owner |-> p, org |-> org, client |-> c,
                                               number |-> req[p].number])
                 /\ plans' = IF org = NoOrg THEN plans
                             ELSE Put(plans, nextId + 2, [org |-> org, client |-> c, debt |-> loan])
    BY <1>5 DEF Lent
  <2>2. nextId' = nextId + 3 /\ \A q \in People : req'[q] = req[q] \/ req'[q].kind # "unplan"
    BY <1>5, Served DEF Lent, Commit
  <2>3. /\ DOMAIN debts' = DOMAIN debts \cup {loan} /\ loan \notin DOMAIN debts /\ loan # None
        /\ debts' = [i \in DOMAIN debts' |-> debts'[i]]
        /\ \A d \in DOMAIN debts : debts'[d] = debts[d]
        /\ debts'[loan].org = org /\ debts'[loan].client = c
    BY <2>1 DEF Put, PlansInv, Table, None
  <2>4. \A a \in DOMAIN plans : plans[a].debt # loan
    BY <2>3 DEF PlansInv
  <2>5. Table(debts)'
    BY <2>2, <2>3 DEF PlansInv, Table
  <2>6. CASE org = NoOrg
    <3>1. plans' = plans /\ Table(plans)'
      BY <2>1, <2>2, <2>6 DEF PlansInv, Table
    <3>2. LoansKeepPlans'
      BY <2>3, <2>6, <3>1 DEF PlansInv, LoansKeepPlans
    <3> QED
      BY <2>2, <2>3, <2>5, <3>1, <3>2 DEF PlansInv, Unplanning
  <2>7. CASE org # NoOrg
    <3> DEFINE plan == nextId + 2
    <3>1. /\ DOMAIN plans' = DOMAIN plans \cup {plan} /\ plan \notin DOMAIN plans
          /\ plans' = [i \in DOMAIN plans' |-> plans'[i]]
          /\ \A a \in DOMAIN plans : plans'[a] = plans[a]
          /\ plans'[plan] = [org |-> org, client |-> c, debt |-> loan]
      BY <2>1, <2>7 DEF Put, PlansInv, Table
    <3>2. Table(plans)'
      BY <2>2, <3>1 DEF PlansInv, Table
    <3>3. \A a \in DOMAIN plans' :
            /\ plans'[a] = [org |-> plans'[a].org, client |-> plans'[a].client, debt |-> plans'[a].debt]
            /\ plans'[a].debt \in DOMAIN debts' \cup {None}
      BY <2>3, <3>1 DEF PlansInv
    <3>4. \A q \in People : /\ req'[q].kind = "unplan" => req'[q].id \in Nat /\ req'[q].id < nextId'
                            /\ Unplanning(req[q])'
      BY <2>2, <3>1 DEF PlansInv, Unplanning
    <3>5. ASSUME NEW d \in DOMAIN debts', debts'[d].org # NoOrg
          PROVE  \E a \in DOMAIN plans' :
                   /\ plans'[a] = [org |-> debts'[d].org, client |-> debts'[d].client, debt |-> d]
                   /\ \A b \in DOMAIN plans' : plans'[b].debt = d => b = a
      <4>1. CASE d = loan
        BY <2>3, <2>4, <3>1, <4>1
      <4>2. CASE d # loan
        <5>1. d \in DOMAIN debts /\ debts'[d] = debts[d]
          BY <2>3, <4>2
        <5>2. PICK a \in DOMAIN plans :
                /\ plans[a] = [org |-> debts[d].org, client |-> debts[d].client, debt |-> d]
                /\ \A b \in DOMAIN plans : plans[b].debt = d => b = a
          BY <3>5, <5>1 DEF PlansInv, LoansKeepPlans
        <5> QED
          BY <3>1, <4>2, <5>1, <5>2
      <4> QED
        BY <4>1, <4>2
    <3> QED
      BY <2>2, <2>5, <3>2, <3>3, <3>4, <3>5 DEF PlansInv, LoansKeepPlans
  <2> QED
    BY <2>6, <2>7
<1>6. ASSUME NEW p \in People, DebtsDeleted(p) PROVE PlansInv'
  <2>1. \A q \in People : req'[q] = req[q] \/ req'[q].kind # "unplan"
    BY <1>6, Served DEF DebtsDeleted
  <2>2. CASE UNCHANGED ledger
    BY <1>0, <2>1, <2>2, PlansAside DEF ledger
  <2>3. CASE ~UNCHANGED ledger
    <3> DEFINE S == req[p].ids \cap DOMAIN debts
    <3>1. DropDebts(S, PaidOn(S), docs, plans) /\ nextId' = nextId
      BY <1>6, <2>3 DEF DebtsDeleted
    <3>2. Without(plans, {}) = plans
      BY DEF Without, PlansInv, Table
    <3>3. /\ debts' = Without(debts, S)
          /\ plans' = [a \in DOMAIN Without(plans, {}) |->
                         IF Without(plans, {})[a].debt \in S
                         THEN [Without(plans, {})[a] EXCEPT !.debt = None] ELSE Without(plans, {})[a]]
      BY <3>1, <3>2 DEF DropDebts
    <3>4. S \in SUBSET DOMAIN debts /\ {} \in SUBSET DOMAIN plans
      OBVIOUS
    <3>5. \A d \in DOMAIN debts \ S, a \in {} : plans[a].debt = d => debts[d].client # plans[a].client
      OBVIOUS
    <3> HIDE DEF S
    <3> QED
      BY <2>1, <3>1, <3>3, <3>4, <3>5, PlansForget
  <2> QED
    BY <2>2, <2>3
<1>7. ASSUME NEW p \in People, ClientDeleted(p) PROVE PlansInv'
  <2>1. \A q \in People : req'[q] = req[q] \/ req'[q].kind # "unplan"
    BY <1>7, Served DEF ClientDeleted
  <2>2. CASE UNCHANGED ledger
    BY <1>0, <2>1, <2>2, PlansAside DEF ledger
  <2>3. CASE ~UNCHANGED ledger
    <3> DEFINE c == req[p].id
               S == LoansOf(c)
               P == {a \in DOMAIN plans : plans[a].client = c}
    <3>1. PICK paid : DropDebts(S, paid, Without(docs, DocumentsOf(c)), Without(plans, P)) /\ nextId' = nextId
      BY <1>7, <2>3 DEF ClientDeleted
    <3>2. S \in SUBSET DOMAIN debts /\ P \in SUBSET DOMAIN plans
      BY DEF LoansOf
    <3>3. \A d \in DOMAIN debts \ S, a \in P : debts[d].client # plans[a].client
      BY DEF LoansOf
    <3>4. /\ debts' = Without(debts, S)
          /\ plans' = [a \in DOMAIN Without(plans, P) |->
                         IF Without(plans, P)[a].debt \in S
                         THEN [Without(plans, P)[a] EXCEPT !.debt = None] ELSE Without(plans, P)[a]]
      BY <3>1 DEF DropDebts
    <3> HIDE DEF S, P
    <3> QED
      BY <2>1, <3>1, <3>2, <3>3, <3>4, PlansForget
  <2> QED
    BY <2>2, <2>3
<1>8. ASSUME NEW p \in People, PlanSaved(p) PROVE PlansInv'
  <2>1. \A q \in People : req'[q] = req[q] \/ req'[q].kind # "unplan"
    BY <1>8, Served DEF PlanSaved
  <2>2. CASE UNCHANGED ledger
    BY <1>0, <2>1, <2>2, PlansAside DEF ledger
  <2>3. CASE ~UNCHANGED ledger
    <3>1. /\ plans' = Put(plans, nextId, [org |-> req[p].org, client |-> req[p].id, debt |-> None])
          /\ nextId' = nextId + 1 /\ debts' = debts
      BY <1>8, <2>3 DEF PlanSaved
    <3>2. /\ DOMAIN plans' = DOMAIN plans \cup {nextId} /\ nextId \notin DOMAIN plans
          /\ plans' = [i \in DOMAIN plans' |-> plans'[i]]
          /\ \A a \in DOMAIN plans : plans'[a] = plans[a]
          /\ plans'[nextId] = [org |-> req[p].org, client |-> req[p].id, debt |-> None]
      BY <3>1 DEF Put, PlansInv, Table
    <3>3. Table(debts)' /\ Table(plans)'
      BY <3>1, <3>2 DEF PlansInv, Table
    <3>4. \A a \in DOMAIN plans' :
            /\ plans'[a] = [org |-> plans'[a].org, client |-> plans'[a].client, debt |-> plans'[a].debt]
            /\ plans'[a].debt \in DOMAIN debts' \cup {None}
      BY <3>1, <3>2 DEF PlansInv
    <3>5. \A q \in People : /\ req'[q].kind = "unplan" => req'[q].id \in Nat /\ req'[q].id < nextId'
                            /\ Unplanning(req[q])'
      BY <2>1, <3>1, <3>2 DEF PlansInv, Unplanning
    <3>6. ASSUME NEW d \in DOMAIN debts', debts'[d].org # NoOrg
          PROVE  \E a \in DOMAIN plans' :
                   /\ plans'[a] = [org |-> debts'[d].org, client |-> debts'[d].client, debt |-> d]
                   /\ \A b \in DOMAIN plans' : plans'[b].debt = d => b = a
      <4>1. d # None
        BY <3>1, <3>6 DEF PlansInv, Table, None
      <4>2. PICK a \in DOMAIN plans :
              /\ plans[a] = [org |-> debts[d].org, client |-> debts[d].client, debt |-> d]
              /\ \A b \in DOMAIN plans : plans[b].debt = d => b = a
        BY <3>1, <3>6 DEF PlansInv, LoansKeepPlans
      <4> QED
        BY <3>1, <3>2, <4>1, <4>2
    <3> QED
      BY <1>0, <3>1, <3>3, <3>4, <3>5, <3>6 DEF PlansInv, LoansKeepPlans
  <2> QED
    BY <2>2, <2>3
<1>9. ASSUME NEW p \in People, DeletePlan(p) PROVE PlansInv'
  <2>1. PICK a \in DOMAIN plans : Deletable(a) /\ Keep(p, [kind |-> "unplan", id |-> a])
    BY <1>9 DEF DeletePlan
  <2>2. UNCHANGED <<debts, plans, nextId>>
    BY <1>9 DEF DeletePlan, ledger
  <2>3. \A q \in People : req'[q] = IF q = p THEN [kind |-> "unplan", id |-> a] ELSE req[q]
    BY <2>1, Kept DEF StaffInv
  <2>4. a \in Nat /\ a < nextId /\ plans[a].debt = None
    BY <2>1 DEF PlansInv, Table, Deletable
  <2>5. Table(debts)' /\ Table(plans)'
    BY <2>2 DEF PlansInv, Table
  <2>6. \A q \in People : /\ req'[q].kind = "unplan" => req'[q].id \in Nat /\ req'[q].id < nextId'
                          /\ Unplanning(req[q])'
    BY <2>2, <2>3, <2>4 DEF PlansInv, Unplanning
  <2> QED
    BY <2>2, <2>5, <2>6 DEF PlansInv, LoansKeepPlans
<1>10. ASSUME NEW p \in People, PlanDeleted(p) PROVE PlansInv'
  <2> DEFINE P == {req[p].id} \cap DOMAIN plans
  <2>1. \A q \in People : req'[q] = req[q] \/ req'[q].kind # "unplan"
    BY <1>10, Served DEF PlanDeleted
  <2>2. plans' = Without(plans, P) /\ UNCHANGED <<debts, nextId>>
    BY <1>10 DEF PlanDeleted, Without
  <2>3. debts' = Without(debts, {})
    BY <2>2 DEF Without, PlansInv, Table
  <2>4. \A a \in P : plans[a].debt = None
    BY <1>10 DEF PlanDeleted, Serving, PlansInv, Unplanning
  <2>5. \A d \in DOMAIN debts : d # None
    BY DEF PlansInv, Table, None
  <2>6. plans' = [a \in DOMAIN Without(plans, P) |->
                    IF Without(plans, P)[a].debt \in {} THEN [Without(plans, P)[a] EXCEPT !.debt = None]
                    ELSE Without(plans, P)[a]]
    BY <2>2 DEF Without
  <2> HIDE DEF P
  <2>7. P \in SUBSET DOMAIN plans
    BY DEF P
  <2> QED
    BY <2>1, <2>2, <2>3, <2>4, <2>5, <2>6, <2>7, PlansForget
<1>11. ASSUME NEW p \in People, Lend(p) \/ Issue(p) PROVE PlansInv'
  <2>1. PICK r : Keep(p, r) /\ r.kind \in {"lend", "issue"}
    <3>1. CASE Lend(p)
      BY <3>1 DEF Lend, Draw
    <3>2. CASE Issue(p)
      BY <3>2 DEF Issue, Draw
    <3> QED
      BY <1>11, <3>1, <3>2
  <2>2. \A q \in People : req'[q] = req[q] \/ req'[q].kind # "unplan"
    BY <2>1, Kept DEF StaffInv
  <2>3. UNCHANGED <<debts, plans, nextId>>
    BY <1>11 DEF Lend, Issue, Draw
  <2> QED
    BY <1>0, <2>2, <2>3, PlansAside
<1>12. ASSUME NEW p \in People, Issued(p) \/ RolledBack(p) PROVE PlansInv'
  <2>1. Keep(p, Idle) /\ UNCHANGED <<debts, plans>> /\ nextId' \in {nextId, nextId + 1}
    BY <1>12 DEF Issued, Commit, Serving, RolledBack
  <2>2. \A q \in People : req'[q] = req[q] \/ req'[q].kind # "unplan"
    BY <2>1, Kept DEF StaffInv, Idle
  <2> QED
    BY <1>0, <2>1, <2>2, PlansAside
<1> QED
  BY <1>1, <1>2, <1>3, <1>4, <1>5, <1>6, <1>7, <1>8, <1>9, <1>10, <1>11, <1>12 DEF Next, Lending, Ending

LEMMA PlansAlways == Spec => []PlansInv
BY PlansInit, PlansStep, StaffAlways, PTL DEF Spec

\* A loan of an organization keeps exactly one plan, its own, whatever is deleted by
\* requests that overlap (create_debt, amortization_plan_detail_view, delete_client).
THEOREM PlansKept == Spec => []LoansKeepPlans
<1>1. PlansInv => LoansKeepPlans
  BY DEF PlansInv
<1> QED
  BY <1>1, PlansAlways, PTL

-----------------------------------------------------------------------------
(* What rows cite.                                                         *)

\* What a transaction is about was looked up under the lock it still holds.
Cited(r) ==
  /\ r.kind = "lend" => r.cited \in DOMAIN clients \cup {None}
  /\ r.kind = "issue" => /\ r.cited.client \in DOMAIN clients
                         /\ r.cited.debt \in DOMAIN debts \cup {None}
                         /\ r.cited.payment \in DOMAIN payments \cup {None}

DocsTyped ==
  \A x \in DOMAIN docs :
    docs[x] = [org |-> docs[x].org, type |-> docs[x].type, number |-> docs[x].number,
               client |-> docs[x].client, debt |-> docs[x].debt, payment |-> docs[x].payment]

RefsInv == DocsTyped /\ (\A p \in People : Cited(req[p])) /\ NothingDangles

LEMMA RefsInit == Init => RefsInv
<1> SUFFICES ASSUME Init PROVE RefsInv
  OBVIOUS
<1>1. /\ DOMAIN clients = {} /\ DOMAIN debts = {} /\ DOMAIN payments = {}
      /\ DOMAIN plans = {} /\ DOMAIN docs = {}
  BY DEF Init
<1>2. \A p \in People : req[p].kind = "idle"
  BY DEF Init, Idle
<1> QED
  BY <1>1, <1>2 DEF RefsInv, DocsTyped, Cited, NothingDangles

\* Steps that leave the rows alone and begin no transaction.
LEMMA RefsAside ==
  ASSUME RefsInv, UNCHANGED <<clients, debts, payments, plans, docs>>,
         \A p \in People : req'[p] = req[p] \/ req'[p].kind \notin {"lend", "issue"}
  PROVE  RefsInv'
<1>1. ASSUME NEW p \in People PROVE Cited(req[p])'
  <2>1. CASE req'[p] = req[p]
    BY <2>1 DEF RefsInv, Cited
  <2>2. CASE req'[p].kind \notin {"lend", "issue"}
    BY <2>2 DEF Cited
  <2> QED
    BY <2>1, <2>2
<1> QED
  BY <1>1 DEF RefsInv, DocsTyped, NothingDangles

\* A step after which no transaction is open.
LEMMA RefsWritten ==
  ASSUME DocsTyped', NothingDangles', \A p \in People : ~Writing(p)'
  PROVE  RefsInv'
BY DEF RefsInv, Cited, Writing

\* The loans in S and the payments in paid go; plans and documents that are kept forget
\* them, but for a document of a loan, and cite a client that is kept.
LEMMA RefsForget ==
  ASSUME PlansInv, RefsInv, NEW S \in SUBSET DOMAIN debts, NEW paid \in SUBSET DOMAIN payments,
         PaidOn(S) \subseteq paid,
         DOMAIN debts' = DOMAIN debts \ S,
         \A d \in DOMAIN debts' : debts'[d] = debts[d] /\ debts[d].client \in DOMAIN clients',
         DOMAIN payments' = DOMAIN payments \ paid,
         \A i \in DOMAIN payments' : payments'[i] = payments[i],
         \A a \in DOMAIN plans' :
           /\ a \in DOMAIN plans /\ plans[a].client \in DOMAIN clients'
           /\ plans'[a] = IF plans[a].debt \in S THEN [plans[a] EXCEPT !.debt = None] ELSE plans[a],
         \A x \in DOMAIN docs' :
           /\ x \in DOMAIN docs /\ docs[x].client \in DOMAIN clients' /\ docs[x].debt \notin S
           /\ docs'[x] = IF docs[x].payment \in paid THEN [docs[x] EXCEPT !.payment = None] ELSE docs[x]
  PROVE  DocsTyped' /\ NothingDangles'
<1>1. \A i \in DOMAIN payments' : payments[i].debt \notin S
  BY DEF PaidOn
<1>2. ASSUME NEW d \in DOMAIN debts' PROVE debts'[d].client \in DOMAIN clients'
  BY <1>2
<1>3. ASSUME NEW i \in DOMAIN payments'
      PROVE  payments'[i].debt \in DOMAIN debts' /\ payments'[i].client = debts'[payments'[i].debt].client
  BY <1>1, <1>3 DEF RefsInv, NothingDangles
<1>4. ASSUME NEW a \in DOMAIN plans'
      PROVE  plans'[a].client \in DOMAIN clients' /\ plans'[a].debt \in DOMAIN debts' \cup {None}
  <2>1. /\ a \in DOMAIN plans /\ plans[a].client \in DOMAIN clients'
        /\ plans'[a] = IF plans[a].debt \in S THEN [plans[a] EXCEPT !.debt = None] ELSE plans[a]
    BY <1>4
  <2>2. plans[a] = [org |-> plans[a].org, client |-> plans[a].client, debt |-> plans[a].debt]
    BY <2>1 DEF PlansInv
  <2>3. plans'[a].client = plans[a].client
    BY <2>1, <2>2
  <2>4. plans'[a].debt = IF plans[a].debt \in S THEN None ELSE plans[a].debt
    BY <2>1, <2>2
  <2> QED
    BY <2>1, <2>3, <2>4 DEF RefsInv, NothingDangles
<1>5. ASSUME NEW x \in DOMAIN docs'
      PROVE  /\ docs'[x] = [org |-> docs'[x].org, type |-> docs'[x].type, number |-> docs'[x].number,
                            client |-> docs'[x].client, debt |-> docs'[x].debt,
                            payment |-> docs'[x].payment]
             /\ docs'[x].client \in DOMAIN clients' /\ docs'[x].debt \in DOMAIN debts' \cup {None}
             /\ docs'[x].payment \in DOMAIN payments' \cup {None}
  <2>1. /\ x \in DOMAIN docs /\ docs[x].client \in DOMAIN clients' /\ docs[x].debt \notin S
        /\ docs'[x] = IF docs[x].payment \in paid THEN [docs[x] EXCEPT !.payment = None] ELSE docs[x]
    BY <1>5
  <2>2. docs[x] = [org |-> docs[x].org, type |-> docs[x].type, number |-> docs[x].number,
                   client |-> docs[x].client, debt |-> docs[x].debt, payment |-> docs[x].payment]
    BY <2>1 DEF RefsInv, DocsTyped
  <2>3. docs'[x] = [org |-> docs[x].org, type |-> docs[x].type, number |-> docs[x].number,
                    client |-> docs[x].client, debt |-> docs[x].debt,
                    payment |-> IF docs[x].payment \in paid THEN None ELSE docs[x].payment]
    BY <2>1, <2>2
  <2>4. docs[x].debt \in DOMAIN debts \cup {None} /\ docs[x].payment \in DOMAIN payments \cup {None}
    BY <2>1 DEF RefsInv, NothingDangles
  <2> QED
    BY <2>1, <2>3, <2>4
<1> QED
  BY <1>2, <1>3, <1>4, <1>5 DEF DocsTyped, NothingDangles

LEMMA RefsStep == StaffInv /\ NumbersInv /\ PlansInv /\ RefsInv /\ [Next]_vars => RefsInv'
<1> SUFFICES ASSUME StaffInv, NumbersInv, PlansInv, RefsInv, [Next]_vars PROVE RefsInv'
  OBVIOUS
<1>1. CASE UNCHANGED vars
  BY <1>1, RefsAside DEF vars, ledger
<1>2. ASSUME NEW p \in People, Reading(p) PROVE RefsInv'
  <2>1. UNCHANGED <<clients, debts, payments, plans, docs>>
    BY <1>2 DEF Reading, CreateStaff, UpdateStaff, RemoveStaff, DeleteDebts, DeleteClient, SavePlan,
                DeletePlan, Lost, ledger
  <2>2. \A q \in People : req'[q] = req[q] \/ req'[q].kind \notin {"lend", "issue"}
    BY <1>2, ReadingKeeps, Kept DEF StaffInv
  <2> QED
    BY <2>1, <2>2, RefsAside
<1>3. ASSUME NEW p \in People, Staffing(p) PROVE RefsInv'
  <2>1. UNCHANGED <<clients, debts, payments, plans, docs>>
    BY <1>3 DEF Staffing, Register, Found, StaffCreated, StaffUpdated, StaffRemoved, ledger
  <2>2. \A q \in People : req'[q] = req[q] \/ req'[q].kind \notin {"lend", "issue"}
    BY <1>3, StaffingKeeps, Kept DEF StaffInv
  <2> QED
    BY <2>1, <2>2, RefsAside
<1>4. ASSUME NEW p \in People, Unlocked, CreateClient(p) PROVE RefsInv'
  <2>1. DOMAIN clients' = DOMAIN clients \cup {nextId} /\ UNCHANGED <<debts, payments, plans, docs, req>>
    BY <1>4 DEF CreateClient, Put
  <2>2. DocsTyped' /\ NothingDangles'
    BY <2>1 DEF RefsInv, DocsTyped, NothingDangles
  <2> QED
    BY <1>4, <2>1, <2>2, RefsWritten DEF Unlocked, Writing
<1>5. ASSUME NEW p \in People, Unlocked, Pay(p) PROVE RefsInv'
  <2>1. PICK d \in DOMAIN debts :
          payments' = Put(payments, nextId, [org |-> debts[d].org, client |-> debts[d].client, debt |-> d])
    BY <1>5 DEF Pay, Scoped
  <2>2. UNCHANGED <<clients, debts, plans, docs, req>>
    BY <1>5 DEF Pay
  <2>3. DOMAIN payments' = DOMAIN payments \cup {nextId}
    BY <2>1 DEF Put
  <2>4. ASSUME NEW i \in DOMAIN payments'
        PROVE  payments'[i].debt \in DOMAIN debts /\ payments'[i].client = debts[payments'[i].debt].client
    <3>1. CASE i = nextId
      BY <2>1, <3>1 DEF Put
    <3>2. CASE i # nextId
      BY <2>1, <2>4, <3>2 DEF Put, RefsInv, NothingDangles
    <3> QED
      BY <3>1, <3>2
  <2>5. DocsTyped' /\ NothingDangles'
    BY <2>2, <2>3, <2>4 DEF RefsInv, DocsTyped, NothingDangles
  <2> QED
    BY <1>5, <2>2, <2>5, RefsWritten DEF Unlocked, Writing
<1>6. ASSUME NEW p \in People, Unlocked,
             DebtsDeleted(p) \/ ClientDeleted(p) \/ PlanSaved(p) \/ PlanDeleted(p)
      PROVE  RefsInv'
  <2>1. Keep(p, Idle)
    BY <1>6 DEF DebtsDeleted, ClientDeleted, PlanSaved, PlanDeleted, Serving
  <2>2. \A q \in People : req'[q] = IF q = p THEN Idle ELSE req[q]
    BY <2>1, Kept DEF StaffInv
  <2>3. \A q \in People : ~Writing(q)'
    BY <1>6, <2>2 DEF Unlocked, Writing, Idle
  <2>4. CASE UNCHANGED ledger
    BY <2>2, <2>4, RefsAside DEF ledger, Idle
  <2>5. CASE DebtsDeleted(p) /\ ~UNCHANGED ledger
    <3> DEFINE S == req[p].ids \cap DOMAIN debts
    <3>1. DropDebts(S, PaidOn(S), docs, plans) /\ ~Protected(S) /\ clients' = clients
      BY <2>5 DEF DebtsDeleted
    <3>2. \A x \in DOMAIN docs : docs[x].debt \notin S /\ docs[x].client \in DOMAIN clients
      BY <3>1 DEF Protected, RefsInv, NothingDangles
    <3>3. S \in SUBSET DOMAIN debts /\ PaidOn(S) \in SUBSET DOMAIN payments
      BY DEF PaidOn
    <3> HIDE DEF S
    <3>4. /\ DOMAIN debts' = DOMAIN debts \ S
          /\ \A d \in DOMAIN debts' : debts'[d] = debts[d] /\ debts[d].client \in DOMAIN clients'
      BY <3>1 DEF DropDebts, Without, RefsInv, NothingDangles
    <3>5. /\ DOMAIN payments' = DOMAIN payments \ PaidOn(S)
          /\ \A i \in DOMAIN payments' : payments'[i] = payments[i]
      BY <3>1 DEF DropDebts, Without
    <3>6. \A a \in DOMAIN plans' :
            /\ a \in DOMAIN plans /\ plans[a].client \in DOMAIN clients'
            /\ plans'[a] = IF plans[a].debt \in S THEN [plans[a] EXCEPT !.debt = None] ELSE plans[a]
      BY <3>1 DEF DropDebts, RefsInv, NothingDangles
    <3>7. \A x \in DOMAIN docs' :
            /\ x \in DOMAIN docs /\ docs[x].client \in DOMAIN clients' /\ docs[x].debt \notin S
            /\ docs'[x] = IF docs[x].payment \in PaidOn(S) THEN [docs[x] EXCEPT !.payment = None]
                          ELSE docs[x]
      BY <3>1, <3>2 DEF DropDebts
    <3>8. DocsTyped' /\ NothingDangles'
      BY <3>3, <3>4, <3>5, <3>6, <3>7, RefsForget
    <3> QED
      BY <2>3, <3>8, RefsWritten
  <2>6. CASE ClientDeleted(p) /\ ~UNCHANGED ledger
    <3> DEFINE c == req[p].id
               S == LoansOf(c)
               paid == {i \in DOMAIN payments : payments[i].client = c} \cup PaidOn(S)
               kept == Without(docs, DocumentsOf(c))
               planned == Without(plans, {a \in DOMAIN plans : plans[a].client = c})
    <3>1. DropDebts(S, paid, kept, planned) /\ clients' = Without(clients, {c})
      BY <2>6 DEF ClientDeleted
    <3>2. DOMAIN clients' = DOMAIN clients \ {c}
      BY <3>1 DEF Without
    <3>3. S \in SUBSET DOMAIN debts /\ paid \in SUBSET DOMAIN payments /\ PaidOn(S) \subseteq paid
      BY DEF LoansOf, PaidOn
    <3>4. \A d \in DOMAIN debts \ S : debts[d].client \in DOMAIN clients'
      BY <3>2 DEF LoansOf, RefsInv, NothingDangles
    <3>5. None \notin DOMAIN debts
      BY DEF PlansInv, Table, None
    <3>6. /\ DOMAIN kept \subseteq DOMAIN docs
          /\ \A x \in DOMAIN kept : kept[x] = docs[x] /\ docs[x].client # c /\ docs[x].debt \notin S
      BY <3>5 DEF Without, DocumentsOf, LoansOf
    <3>7. /\ DOMAIN planned \subseteq DOMAIN plans
          /\ \A a \in DOMAIN planned : planned[a] = plans[a] /\ plans[a].client # c
      BY DEF Without
    <3> HIDE DEF c, S, paid, kept, planned
    <3>8. /\ DOMAIN debts' = DOMAIN debts \ S
          /\ \A d \in DOMAIN debts' : debts'[d] = debts[d] /\ debts[d].client \in DOMAIN clients'
      BY <3>1, <3>4 DEF DropDebts, Without
    <3>9. /\ DOMAIN payments' = DOMAIN payments \ paid
          /\ \A i \in DOMAIN payments' : payments'[i] = payments[i]
      BY <3>1 DEF DropDebts, Without
    <3>10. \A a \in DOMAIN plans' :
             /\ a \in DOMAIN plans /\ plans[a].client \in DOMAIN clients'
             /\ plans'[a] = IF plans[a].debt \in S THEN [plans[a] EXCEPT !.debt = None] ELSE plans[a]
      BY <3>1, <3>2, <3>7 DEF DropDebts, RefsInv, NothingDangles
    <3>11. \A x \in DOMAIN docs' :
             /\ x \in DOMAIN docs /\ docs[x].client \in DOMAIN clients' /\ docs[x].debt \notin S
             /\ docs'[x] = IF docs[x].payment \in paid THEN [docs[x] EXCEPT !.payment = None] ELSE docs[x]
      BY <3>1, <3>2, <3>6 DEF DropDebts, RefsInv, NothingDangles
    <3>12. DocsTyped' /\ NothingDangles'
      BY <3>3, <3>8, <3>9, <3>10, <3>11, RefsForget
    <3> QED
      BY <2>3, <3>12, RefsWritten
  <2>7. CASE PlanSaved(p) /\ ~UNCHANGED ledger
    <3>1. /\ plans' = Put(plans, nextId, [org |-> req[p].org, client |-> req[p].id, debt |-> None])
          /\ req[p].id \in DOMAIN clients /\ UNCHANGED <<clients, debts, payments, docs>>
      BY <2>7 DEF PlanSaved
    <3>2. DOMAIN plans' = DOMAIN plans \cup {nextId}
      BY <3>1 DEF Put
    <3>3. \A a \in DOMAIN plans' :
            plans'[a].client \in DOMAIN clients /\ plans'[a].debt \in DOMAIN debts \cup {None}
      BY <3>1, <3>2 DEF Put, RefsInv, NothingDangles
    <3>4. DocsTyped' /\ NothingDangles'
      BY <3>1, <3>3 DEF RefsInv, DocsTyped, NothingDangles
    <3> QED
      BY <2>3, <3>4, RefsWritten
  <2>8. CASE PlanDeleted(p)
    <3>1. /\ DOMAIN plans' = DOMAIN plans \ {req[p].id} /\ \A a \in DOMAIN plans' : plans'[a] = plans[a]
          /\ UNCHANGED <<clients, debts, payments, docs>>
      BY <2>8 DEF PlanDeleted, Without
    <3>2. DocsTyped' /\ NothingDangles'
      BY <3>1 DEF RefsInv, DocsTyped, NothingDangles
    <3> QED
      BY <2>3, <3>2, RefsWritten
  <2> QED
    BY <1>6, <2>4, <2>5, <2>6, <2>7, <2>8
<1>7. ASSUME NEW p \in People, Lend(p) PROVE RefsInv'
  <2>1. PICK c \in DOMAIN clients \cup {None} : Draw(p, "lend", Reference, c)
    BY <1>7 DEF Lend, Scoped
  <2>2. PICK r : Keep(p, r) /\ r.kind = "lend" /\ r.cited = c
    BY <2>1 DEF Draw
  <2>3. UNCHANGED <<clients, debts, payments, plans, docs>>
    BY <2>1 DEF Draw
  <2>4. \A q \in People : Cited(req[q])'
    BY <2>2, <2>3, Kept DEF StaffInv, RefsInv, Cited
  <2> QED
    BY <2>3, <2>4 DEF RefsInv, DocsTyped, NothingDangles
<1>8. ASSUME NEW p \in People, Issue(p) PROVE RefsInv'
  <2>1. PICK type \in Types, c \in DOMAIN clients, d \in DOMAIN debts \cup {None},
             i \in DOMAIN payments \cup {None} :
          Draw(p, "issue", <<member[p].org, type>>, [client |-> c, debt |-> d, payment |-> i])
    BY <1>8 DEF Issue
  <2>2. PICK r : Keep(p, r) /\ r.kind = "issue" /\ r.cited = [client |-> c, debt |-> d, payment |-> i]
    BY <2>1 DEF Draw
  <2>3. UNCHANGED <<clients, debts, payments, plans, docs>>
    BY <2>1 DEF Draw
  <2>4. \A q \in People : Cited(req[q])'
    BY <2>2, <2>3, Kept DEF StaffInv, RefsInv, Cited
  <2> QED
    BY <2>3, <2>4 DEF RefsInv, DocsTyped, NothingDangles
<1>9. ASSUME NEW p \in People, Ending(p) PROVE RefsInv'
  <2>1. Writing(p) /\ Keep(p, Idle)
    BY <1>9 DEF Ending, Lent, Issued, RolledBack, Commit, Serving, Writing
  <2>2. \A q \in People : req'[q] = IF q = p THEN Idle ELSE req[q]
    BY <2>1, Kept DEF StaffInv
  <2>3. \A q \in People : ~Writing(q)'
    BY <2>1, <2>2 DEF NumbersInv, Writing, Idle
  <2>4. CASE RolledBack(p)
    BY <2>2, <2>4, RefsAside DEF RolledBack, Idle
  <2>5. CASE Lent(p)
    <3> DEFINE c == IF req[p].cited = None THEN nextId ELSE req[p].cited
               loan == nextId + 1
               plan == [org |-> member[p].org, client |-> c, debt |-> loan]
    <3>1. /\ clients' = IF c = nextId THEN Put(clients, c, ClientRow(p)) ELSE clients
          /\ debts' = Put(debts, loan, [owner |-> p, org |-> member[p].org, client |-> c,
                                        number |-> req[p].number])
          /\ plans' = plans \/ plans' = Put(plans, nextId + 2, plan)
          /\ UNCHANGED <<payments, docs>>
      BY <2>5 DEF Lent
    <3>2. req[p].cited \in DOMAIN clients \cup {None}
      BY <2>5 DEF Lent, Commit, Serving, RefsInv, Cited
    <3>3. c \in DOMAIN clients' /\ DOMAIN clients \subseteq DOMAIN clients'
      BY <3>1, <3>2 DEF Put
    <3>4. /\ DOMAIN debts' = DOMAIN debts \cup {loan} /\ loan \notin DOMAIN debts
          /\ \A d \in DOMAIN debts : debts'[d] = debts[d]
          /\ debts'[loan].client = c
      BY <3>1 DEF Put, PlansInv, Table
    <3>5. \A d \in DOMAIN debts' : debts'[d].client \in DOMAIN clients'
      BY <3>3, <3>4 DEF RefsInv, NothingDangles
    <3>6. \A a \in DOMAIN plans' : (a \in DOMAIN plans /\ plans'[a] = plans[a]) \/ plans'[a] = plan
      BY <3>1 DEF Put
    <3>7. \A a \in DOMAIN plans' :
            plans'[a].client \in DOMAIN clients' /\ plans'[a].debt \in DOMAIN debts' \cup {None}
      BY <3>3, <3>4, <3>6 DEF RefsInv, NothingDangles
    <3>8. \A i \in DOMAIN payments :
            payments[i].debt \in DOMAIN debts' /\ payments[i].client = debts'[payments[i].debt].client
      BY <3>4 DEF RefsInv, NothingDangles
    <3>9. \A x \in DOMAIN docs :
            /\ docs[x].client \in DOMAIN clients' /\ docs[x].debt \in DOMAIN debts' \cup {None}
            /\ docs[x].payment \in DOMAIN payments \cup {None}
      BY <3>3, <3>4 DEF RefsInv, NothingDangles
    <3>10. DocsTyped' /\ NothingDangles'
      BY <3>1, <3>5, <3>7, <3>8, <3>9 DEF RefsInv, DocsTyped, NothingDangles
    <3> QED
      BY <2>3, <3>10, RefsWritten
  <2>6. CASE Issued(p)
    <3> DEFINE r == req[p]
               doc == [org |-> r.counter[1], type |-> r.counter[2], number |-> r.number,
                       client |-> r.cited.client, debt |-> r.cited.debt, payment |-> r.cited.payment]
    <3>1. docs' = Put(docs, nextId, doc) /\ UNCHANGED <<clients, debts, payments, plans>>
      BY <2>6 DEF Issued
    <3>2. /\ r.cited.client \in DOMAIN clients /\ r.cited.debt \in DOMAIN debts \cup {None}
          /\ r.cited.payment \in DOMAIN payments \cup {None}
      BY <2>6 DEF Issued, Commit, Serving, RefsInv, Cited
    <3>3. \A x \in DOMAIN docs' : (x \in DOMAIN docs /\ docs'[x] = docs[x]) \/ docs'[x] = doc
      BY <3>1 DEF Put
    <3>4. DocsTyped'
      BY <3>3 DEF RefsInv, DocsTyped
    <3>5. NothingDangles'
      BY <3>1, <3>2, <3>3 DEF RefsInv, NothingDangles
    <3> QED
      BY <2>3, <3>4, <3>5, RefsWritten
  <2> QED
    BY <1>9, <2>4, <2>5, <2>6 DEF Ending
<1> QED
  BY <1>1, <1>2, <1>3, <1>4, <1>5, <1>6, <1>7, <1>8, <1>9 DEF Next, Lending

\* Whatever overlaps, no row cites a client, a loan or a payment that is gone, so that
\* nothing is left that would refuse the deletion of a client (delete_client,
\* debt_detail_view, amortization_plans_view, create_debt, issue_document).
THEOREM RowsCiteRows == Spec => []NothingDangles
<1>1. RefsInv => NothingDangles
  BY DEF RefsInv
<1> QED
  BY <1>1, RefsInit, RefsStep, StaffAlways, NumbersAlways, PlansAlways, PTL DEF Spec
=============================================================================
