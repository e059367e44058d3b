------------------------- MODULE LedgerSocketProofs -------------------------
(***************************************************************************)
(* For any number of connections, changes and tokens, any limit of sockets *)
(* and any page size: LedgerSocket implements ChangeStream, no change      *)
(* slips between the hello, the broadcasts and the pages, a user never has *)
(* more sockets open than the limit, and a connection whose token is       *)
(* revoked hears of it but for the broadcasts that are lost.               *)
(***************************************************************************)
EXTENDS LedgerSocket, FiniteSetTheorems, WellFoundedInduction, TLAPS

Stages == {"closed", "known", "added", "over", "counted", "joined", "open", "floor", "page",
           "out", "release"}

SocketTypeOK ==
  /\ last \in Nat /\ log \subseteq 1..last /\ unsent \subseteq 1..last
  /\ stage \in [Conns -> Stages]
  /\ cursor \in [Conns -> {NoCursor} \cup Nat] /\ got \in [Conns -> SUBSET Nat]
  /\ inbox \in [Conns -> SUBSET Nat] /\ missed \in [Conns -> SUBSET Nat]
  /\ told \in [Conns -> Nat] /\ unheard \in [Conns -> BOOLEAN]
  /\ groups \in [Conns -> SUBSET {"ledger", "auth"}]
  /\ bound \in [Conns -> {"no", "tab", "phone"}]
  /\ auth \in [Conns -> Nat] /\ token \in Nat /\ revoked \subseteq Nat

\* Only a connection that is open and has said hello streams, and one that is
\* asked for a page does.
StreamsIfOpen(c) ==
  IF cursor[c] = NoCursor THEN got[c] = {} /\ stage[c] \notin {"floor", "page"}
  ELSE cursor[c] <= last /\ stage[c] \in {"open", "floor", "page"} /\ bound[c] # "no"

\* A connection that has joined the group of its ledger stays in it until it closes.
InItsLedger(c) == stage[c] \in {"joined", "open", "floor", "page"} => InLedgerGroup(c)

\* The newest change is never compacted.
StreamInv ==
  /\ SocketTypeOK
  /\ log # {} => last \in log
  /\ \A c \in Conns : StreamsIfOpen(c) /\ InItsLedger(c)

-----------------------------------------------------------------------------
(* Maxima and pages.                                                       *)

LEMMA MaxIs ==
  ASSUME NEW S \in SUBSET Nat, IsFiniteSet(S), S # {}
  PROVE  Max(S) \in S /\ \A x \in S : x <= Max(S)
<1> DEFINE Above(s) == {x \in S : x > s}
           F == {Above(s) : s \in S}
<1>0. \A x \in S : x \in Nat
  OBVIOUS
<1>1. \A s \in S : Above(s) \in FiniteSubsetsOf(S)
  <2> SUFFICES ASSUME NEW s \in S PROVE Above(s) \in FiniteSubsetsOf(S)
    OBVIOUS
  <2>1. Above(s) \in SUBSET S
    OBVIOUS
  <2> HIDE DEF Above
  <2>2. IsFiniteSet(Above(s))
    BY <2>1, FS_Subset
  <2> QED
    BY <2>1, <2>2 DEF FiniteSubsetsOf
<1>2. F \subseteq FiniteSubsetsOf(S) /\ F # {}
  BY <1>1
<1>3. PICK t \in F : \A y \in F : ~(<<y, t>> \in StrictSubsetOrdering(S))
  <2> HIDE DEF F
  <2> QED
    BY <1>2, FS_StrictSubsetOrderingWellFounded, WFMin
<1>4. PICK m \in S : t = Above(m)
  OBVIOUS
<1>5. ASSUME NEW x \in S, x > m PROVE FALSE
  <2>0. \A y \in S : y > x => y > m
    BY <1>0, <1>5
  <2>1. Above(x) \subseteq Above(m)
    BY <2>0
  <2>2. x \in Above(m)
    BY <1>5
  <2>3. x \notin Above(x)
    BY <1>0
  <2>4. Above(x) \in SUBSET S /\ Above(m) \in SUBSET S /\ Above(x) \in F
    OBVIOUS
  <2> HIDE DEF Above, F
  <2>5. <<Above(x), Above(m)>> \in StrictSubsetOrdering(S)
    BY <2>1, <2>2, <2>3, <2>4 DEF StrictSubsetOrdering
  <2> QED
    BY <2>4, <2>5, <1>3, <1>4
<1>6. \A x \in S : m >= x
  BY <1>5
<1>7. \E k \in S : \A x \in S : k >= x
  BY <1>6
<1> QED
  BY <1>7 DEF Max

\* A page ends with a change of the log, and holds every one up to it.
LEMMA PageIsPrefix ==
  ASSUME StreamInv, NEW k \in Nat, Page(k) # {}
  PROVE  /\ Max(Page(k)) \in log /\ k < Max(Page(k)) /\ Max(Page(k)) <= last
         /\ Page(k) = {j \in log : k < j /\ j <= Max(Page(k))}
         /\ ~HasMore(k) => \A j \in log : j <= Max(Page(k))
<1> DEFINE m == Max(Page(k))
           Upto(j) == {i \in After(k) : i <= j}
<1>1. /\ last \in Nat /\ log \subseteq 1..last /\ After(k) \subseteq 1..last
      /\ Page(k) \subseteq After(k)
  BY DEF StreamInv, SocketTypeOK, After, Page
<1>8. \A j \in log : j \in Nat
  BY <1>1
<1>2. IsFiniteSet(After(k)) /\ IsFiniteSet(Page(k))
  BY <1>1, FS_Interval, FS_Subset
<1>3. m \in Page(k) /\ \A j \in Page(k) : j <= m
  BY <1>1, <1>2, MaxIs
<1>4. m \in log /\ k < m /\ m <= last
  BY <1>1, <1>3 DEF After
<1>5. ASSUME NEW j \in log, k < j, j <= m PROVE j \in Page(k)
  <2>1. j \in After(k) /\ m \in After(k) /\ j \in Nat /\ m \in Nat
    BY <1>1, <1>4, <1>5 DEF After
  <2>2. Upto(j) \subseteq Upto(m)
    BY <1>1, <1>5, <2>1
  <2>3. IsFiniteSet(Upto(m)) /\ IsFiniteSet(Upto(j)) /\ Cardinality(Upto(j)) <= Cardinality(Upto(m))
    <3>1. Upto(m) \in SUBSET After(k)
      OBVIOUS
    <3> HIDE DEF Upto
    <3> QED
      BY <1>2, <2>2, <3>1, FS_Subset
  <2>4. Cardinality(Upto(m)) <= PageSize
    BY <1>3 DEF Page
  <2>5. Cardinality(Upto(j)) \in Nat /\ Cardinality(Upto(m)) \in Nat /\ PageSize \in Nat
    <3> HIDE DEF Upto
    <3> QED
      BY <2>3, FS_CardinalityType, SocketAssumption
  <2>6. Cardinality(Upto(j)) <= PageSize
    <3> HIDE DEF Upto
    <3> QED
      BY <2>3, <2>4, <2>5
  <2> QED
    BY <2>1, <2>6 DEF Page
<1>6. Page(k) = {j \in log : k < j /\ j <= m}
  BY <1>1, <1>3, <1>5 DEF After
<1>7. ~HasMore(k) => \A j \in log : j <= m
  <2> SUFFICES ASSUME ~HasMore(k), NEW j \in log PROVE j <= m
    OBVIOUS
  <2>1. CASE j > k
    BY <2>1, <1>3 DEF HasMore, After
  <2>2. j \in Nat /\ m \in Nat
    BY <1>8, <1>4
  <2> QED
    BY <2>1, <2>2, <1>4
<1> QED
  BY <1>4, <1>6, <1>7

-----------------------------------------------------------------------------
(* The streams.                                                            *)

LEMMA StreamInit == Init => StreamInv
BY DEF Init, StreamInv, SocketTypeOK, StreamsIfOpen, InItsLedger, Stages

LEMMA StreamStep == StreamInv /\ [Next]_vars => StreamInv'
<1> SUFFICES ASSUME StreamInv, [Next]_vars PROVE StreamInv'
  OBVIOUS
<1> USE DEF StreamInv, SocketTypeOK, StreamsIfOpen, InItsLedger, InLedgerGroup, Stages, changes, stream, channel, slots, login, session
<1>0. CASE UNCHANGED vars
  BY <1>0 DEF vars
<1>1. CASE Write
  BY <1>1, SocketAssumption DEF Write, Commit
<1>2. CASE Compact
  BY <1>2, SocketAssumption DEF Compact
<1>3. CASE PauseEnds
  BY <1>3, SocketAssumption DEF PauseEnds
<1>4. CASE Revoke
  BY <1>4, SocketAssumption DEF Revoke
<1>5. ASSUME NEW t \in revoked, NotifyAuthRevoked(t) PROVE StreamInv'
  <2>1. revoked' \subseteq Nat
    BY <1>5 DEF NotifyAuthRevoked
  <2>2. told' \in [Conns -> Nat]
    <3>1. CASE told' = [c \in Conns |-> IF InAuthGroup(c) /\ ~Full(c) THEN told[c] + 1 ELSE told[c]]
      BY <3>1
    <3>2. CASE UNCHANGED told
      BY <3>2
    <3> QED
      BY <1>5, <3>1, <3>2 DEF NotifyAuthRevoked
  <2>3. PICK S : unheard' = [c \in Conns |-> unheard[c] \/ c \in S]
    BY <1>5, Zenon DEF NotifyAuthRevoked
  <2>4. unheard' \in [Conns -> BOOLEAN]
    BY <2>3
  <2> QED
    BY <1>5, <2>1, <2>2, <2>4 DEF NotifyAuthRevoked
<1>6. CASE Expire
  BY <1>6, SocketAssumption DEF Expire
<1>7. ASSUME NEW k \in unsent, NotifyScope(k) PROVE StreamInv'
  BY <1>7 DEF NotifyScope
<1>8. ASSUME NEW c \in Conns, Authenticate(c) PROVE StreamInv'
  BY <1>8, SocketAssumption DEF Authenticate, Move
<1>9. ASSUME NEW c \in Conns, AddKey(c) PROVE StreamInv'
  BY <1>9, SocketAssumption DEF AddKey, Move
<1>10. ASSUME NEW c \in Conns, CountSocket(c) PROVE StreamInv'
  BY <1>10, SocketAssumption DEF CountSocket, Move
<1>11. ASSUME NEW c \in Conns, Refuse(c) PROVE StreamInv'
  BY <1>11, SocketAssumption DEF Refuse, Move
<1>12. ASSUME NEW c \in Conns, JoinLedger(c) PROVE StreamInv'
  BY <1>12, SocketAssumption DEF JoinLedger, Move, Join
<1>13. ASSUME NEW c \in Conns, Accept(c) PROVE StreamInv'
  <2>1. Announced(auth[c]) \in BOOLEAN
    BY DEF Announced
  <2>2. unheard' \in [Conns -> BOOLEAN]
    BY <1>13, <2>1 DEF Accept
  <2> QED
    BY <1>13, <2>2 DEF Accept, Move, Join
<1>14. ASSUME NEW c \in Conns, JoinFails(c) PROVE StreamInv'
  BY <1>14, SocketAssumption DEF JoinFails, Move, Forget
<1>15. ASSUME NEW c \in Conns, Disconnect(c) PROVE StreamInv'
  BY <1>15, SocketAssumption DEF Disconnect, Move, Forget
<1>16. ASSUME NEW c \in Conns, ReadCount(c) PROVE StreamInv'
  BY <1>16, SocketAssumption DEF ReadCount, Move, Forget
<1>17. ASSUME NEW c \in Conns, Release(c) PROVE StreamInv'
  BY <1>17, SocketAssumption DEF Release, Move
<1>18. ASSUME NEW c \in Conns, Crash(c) PROVE StreamInv'
  BY <1>18, SocketAssumption DEF Crash, Move, Forget
<1>19. ASSUME NEW c \in Conns, LedgerChanged(c) PROVE StreamInv'
  <2>1. PICK to \in inbox[c] : /\ inbox' = [inbox EXCEPT ![c] = inbox[c] \ {to}]
                               /\ IF Newer(c, to) THEN Move(c, "open", "floor") ELSE UNCHANGED stage
    BY <1>19 DEF LedgerChanged
  <2>2. inbox' \in [Conns -> SUBSET Nat]
    BY <2>1
  <2>3. Newer(c, to) => cursor[c] # NoCursor
    BY DEF Newer
  <2> QED
    BY <1>19, <2>1, <2>2, <2>3 DEF LedgerChanged, Move
<1>20. ASSUME NEW c \in Conns, ReadFloor(c) PROVE StreamInv'
  <2>1. CASE cursor[c] < floor
    BY <1>20, <2>1 DEF ReadFloor, Move
  <2>2. CASE ~(cursor[c] < floor)
    BY <1>20, <2>2 DEF ReadFloor, Move
  <2> QED
    BY <2>1, <2>2
<1>21. ASSUME NEW c \in Conns, SendPage(c) PROVE StreamInv'
  <2>1. cursor[c] \in Nat /\ Page(cursor[c]) \subseteq Nat
    <3>1. stage[c] = "page"
      BY <1>21 DEF SendPage
    <3>2. Page(cursor[c]) \subseteq log /\ log \subseteq Nat
      BY DEF Page, After
    <3> QED
      BY <3>1, <3>2
  <2>2. ToCursor(cursor[c]) \in Nat /\ ToCursor(cursor[c]) <= last
    <3>1. cursor[c] <= last /\ log \subseteq Nat
      BY <2>1, SocketAssumption
    <3>2. Page(cursor[c]) # {} => Max(Page(cursor[c])) \in log /\ Max(Page(cursor[c])) <= last
      <4> HIDE DEF StreamInv
      <4> QED
        BY <2>1, PageIsPrefix
    <3> QED
      BY <2>1, <3>1, <3>2 DEF ToCursor
  <2>3. ToCursor(cursor[c]) # NoCursor
    BY <2>2, SocketAssumption
  <2>4. cursor' = [cursor EXCEPT ![c] = ToCursor(cursor[c])]
        /\ got' = [got EXCEPT ![c] = got[c] \cup Page(cursor[c])]
    BY <1>21 DEF SendPage
  <2>5. PICK s \in {"floor", "open"} : stage' = [stage EXCEPT ![c] = s]
    BY <1>21 DEF SendPage, Move
  <2> QED
    BY <1>21, <2>1, <2>2, <2>3, <2>4, <2>5 DEF SendPage
<1>22. ASSUME NEW c \in Conns, AuthRevoked(c) PROVE StreamInv'
  BY <1>22, SocketAssumption DEF AuthRevoked, Move, Forget
<1>23. ASSUME NEW c \in Conns, Hello(c) PROVE StreamInv'
  BY <1>23, SocketAssumption DEF Hello, Move
<1>24. ASSUME NEW c \in Conns, HelloRefused(c) PROVE StreamInv'
  BY <1>24, SocketAssumption DEF HelloRefused, Move, Forget
<1>25. ASSUME NEW c \in Conns, Push(c) PROVE StreamInv'
  BY <1>25, SocketAssumption DEF Push, Move
<1>26. ASSUME NEW c \in Conns, ApplyPush(c) PROVE StreamInv'
  <2>1. CASE Commit
    BY <1>26, <2>1 DEF ApplyPush, Commit
  <2>2. CASE UNCHANGED changes
    BY <1>26, <2>2 DEF ApplyPush
  <2> QED
    BY <1>26, <2>1, <2>2 DEF ApplyPush
<1> QED
  BY <1>0, <1>1, <1>2, <1>3, <1>4, <1>5, <1>6, <1>7, <1>8, <1>9, <1>10, <1>11, <1>12, <1>13, <1>14, <1>15, <1>16, <1>17, <1>18, <1>19, <1>20, <1>21, <1>22, <1>23, <1>24, <1>25, <1>26
     DEF Next, Connecting, Closing, Handling, Talking
LEMMA StreamAlways == Spec => []StreamInv
BY StreamInit, StreamStep, PTL DEF Spec

-----------------------------------------------------------------------------
(* The refinement.                                                         *)

\* A connection that is forgotten ends its stream, if it had one.
LEMMA Forgets ==
  ASSUME StreamInv, NEW c \in Conns, Forget(c), UNCHANGED changes
  PROVE  [Stream!Next]_(Stream!streamVars)
<1>1. CASE cursor[c] = NoCursor
  <2>1. cursor' = cursor /\ got' = got
    BY <1>1 DEF StreamInv, SocketTypeOK, StreamsIfOpen, Forget
  <2> QED
    BY <2>1 DEF changes, Stream!streamVars
<1>2. CASE cursor[c] # NoCursor
  <2>1. Stream!End(c)
    BY <1>2 DEF Forget, changes, Stream!End
  <2> QED
    BY <2>1 DEF Stream!Next
<1> QED
  BY <1>1, <1>2

LEMMA StreamsInOrder == StreamInv /\ [Next]_vars => [Stream!Next]_(Stream!streamVars)
<1> SUFFICES ASSUME StreamInv, [Next]_vars PROVE [Stream!Next]_(Stream!streamVars)
  OBVIOUS
<1> USE DEF StreamInv, SocketTypeOK, StreamsIfOpen, Stream!Next, Stream!streamVars, changes, stream, channel, slots, login, session
<1>0. CASE UNCHANGED vars
  BY <1>0 DEF vars
<1>1. CASE Write
  BY <1>1 DEF Write, Commit, Stream!Commit
<1>2. CASE Compact
  <2>1. last \in log' /\ log' \subseteq log
    BY <1>2 DEF Compact
  <2> QED
    BY <1>2, <2>1 DEF Compact, Stream!Drop
<1>3. CASE PauseEnds
  BY <1>3, SocketAssumption DEF PauseEnds
<1>4. CASE Revoke
  BY <1>4, SocketAssumption DEF Revoke
<1>5. ASSUME NEW t \in revoked, NotifyAuthRevoked(t) PROVE [Stream!Next]_(Stream!streamVars)
  BY <1>5, SocketAssumption DEF NotifyAuthRevoked
<1>6. CASE Expire
  BY <1>6, SocketAssumption DEF Expire
<1>7. ASSUME NEW k \in unsent, NotifyScope(k) PROVE [Stream!Next]_(Stream!streamVars)
  BY <1>7 DEF NotifyScope
<1>8. ASSUME NEW c \in Conns, Authenticate(c) PROVE [Stream!Next]_(Stream!streamVars)
  BY <1>8, SocketAssumption DEF Authenticate, Move
<1>9. ASSUME NEW c \in Conns, AddKey(c) PROVE [Stream!Next]_(Stream!streamVars)
  BY <1>9, SocketAssumption DEF AddKey, Move
<1>10. ASSUME NEW c \in Conns, CountSocket(c) PROVE [Stream!Next]_(Stream!streamVars)
  BY <1>10, SocketAssumption DEF CountSocket, Move
<1>11. ASSUME NEW c \in Conns, Refuse(c) PROVE [Stream!Next]_(Stream!streamVars)
  BY <1>11, SocketAssumption DEF Refuse, Move
<1>12. ASSUME NEW c \in Conns, JoinLedger(c) PROVE [Stream!Next]_(Stream!streamVars)
  BY <1>12, SocketAssumption DEF JoinLedger, Move, Join
<1>13. ASSUME NEW c \in Conns, Accept(c) PROVE [Stream!Next]_(Stream!streamVars)
  BY <1>13, SocketAssumption DEF Accept, Move, Join
<1>14. ASSUME NEW c \in Conns, JoinFails(c) PROVE [Stream!Next]_(Stream!streamVars)
  <2>1. Forget(c) /\ UNCHANGED changes
    BY <1>14 DEF JoinFails
  <2> QED
    BY <2>1, Forgets
<1>15. ASSUME NEW c \in Conns, Disconnect(c) PROVE [Stream!Next]_(Stream!streamVars)
  <2>1. Forget(c) /\ UNCHANGED changes
    BY <1>15 DEF Disconnect
  <2> QED
    BY <2>1, Forgets
<1>16. ASSUME NEW c \in Conns, ReadCount(c) PROVE [Stream!Next]_(Stream!streamVars)
  <2>1. Forget(c) /\ UNCHANGED changes
    BY <1>16 DEF ReadCount
  <2> QED
    BY <2>1, Forgets
<1>17. ASSUME NEW c \in Conns, Release(c) PROVE [Stream!Next]_(Stream!streamVars)
  BY <1>17, SocketAssumption DEF Release, Move
<1>18. ASSUME NEW c \in Conns, Crash(c) PROVE [Stream!Next]_(Stream!streamVars)
  <2>1. Forget(c) /\ UNCHANGED changes
    BY <1>18 DEF Crash
  <2> QED
    BY <2>1, Forgets
<1>19. ASSUME NEW c \in Conns, LedgerChanged(c) PROVE [Stream!Next]_(Stream!streamVars)
  BY <1>19, SocketAssumption DEF LedgerChanged, Move
<1>20. ASSUME NEW c \in Conns, ReadFloor(c) PROVE [Stream!Next]_(Stream!streamVars)
  BY <1>20 DEF ReadFloor, Stream!End
<1>21. ASSUME NEW c \in Conns, SendPage(c) PROVE [Stream!Next]_(Stream!streamVars)
  <2>1. stage[c] = "page" /\ cursor[c] # NoCursor /\ cursor[c] \in Nat
    BY <1>21 DEF SendPage
  <2>2. CASE Page(cursor[c]) = {}
    BY <1>21, <2>2 DEF SendPage, ToCursor
  <2>3. CASE Page(cursor[c]) # {}
    <3> DEFINE m == Max(Page(cursor[c]))
    <3>1. m \in log /\ cursor[c] < m /\ m <= last /\ Page(cursor[c]) = Stream!Between(cursor[c], m)
      <4> HIDE DEF StreamInv
      <4> QED
        BY <2>1, <2>3, PageIsPrefix DEF Stream!Between
    <3>2. m \in Stream!Between(cursor[c], last)
      BY <3>1 DEF Stream!Between
    <3>3. /\ cursor' = [cursor EXCEPT ![c] = m]
          /\ got' = [got EXCEPT ![c] = @ \cup Stream!Between(cursor[c], m)]
          /\ UNCHANGED <<last, log>>
      BY <1>21, <2>3, <3>1 DEF SendPage, ToCursor
    <3> HIDE DEF m
    <3>4. Stream!HandOver(c)
      BY <2>1, <3>2, <3>3 DEF Stream!HandOver
    <3> QED
      BY <3>4
  <2> QED
    BY <2>2, <2>3
<1>22. ASSUME NEW c \in Conns, AuthRevoked(c) PROVE [Stream!Next]_(Stream!streamVars)
  <2>1. Forget(c) /\ UNCHANGED changes
    BY <1>22 DEF AuthRevoked
  <2> QED
    BY <2>1, Forgets
<1>23. ASSUME NEW c \in Conns, Hello(c) PROVE [Stream!Next]_(Stream!streamVars)
  <2>1. CASE UNCHANGED stream
    BY <1>23, <2>1 DEF Hello
  <2>2. CASE ~UNCHANGED stream
    <3>1. PICK from \in 0..last : /\ cursor' = [cursor EXCEPT ![c] = from]
                                 /\ got' = [got EXCEPT ![c] = {}]
      BY <1>23, <2>2 DEF Hello
    <3>2. cursor[c] = NoCursor /\ UNCHANGED <<last, log>>
      BY <1>23 DEF Hello
    <3>3. Stream!Begin(c)
      BY <3>1, <3>2 DEF Stream!Begin
    <3> QED
      BY <3>3
  <2> QED
    BY <2>1, <2>2
<1>24. ASSUME NEW c \in Conns, HelloRefused(c) PROVE [Stream!Next]_(Stream!streamVars)
  <2>1. Forget(c) /\ UNCHANGED changes
    BY <1>24 DEF HelloRefused
  <2> QED
    BY <2>1, Forgets
<1>25. ASSUME NEW c \in Conns, Push(c) PROVE [Stream!Next]_(Stream!streamVars)
  BY <1>25, SocketAssumption DEF Push, Move
<1>26. ASSUME NEW c \in Conns, ApplyPush(c) PROVE [Stream!Next]_(Stream!streamVars)
  BY <1>26 DEF ApplyPush, Commit, Stream!Commit
<1> QED
  BY <1>0, <1>1, <1>2, <1>3, <1>4, <1>5, <1>6, <1>7, <1>8, <1>9, <1>10, <1>11, <1>12, <1>13, <1>14, <1>15, <1>16, <1>17, <1>18, <1>19, <1>20, <1>21, <1>22, <1>23, <1>24, <1>25, <1>26
     DEF Next, Connecting, Closing, Handling, Talking

\* Every connection is a stream of the changes that are kept, in order and without
\* gaps, whatever becomes of broadcasts, pages, pushes and processes.
THEOREM SocketStreams == Spec => ImplementsStream
<1>1. Init => Stream!Init
  BY DEF Init, Stream!Init
<1> QED
  BY <1>1, StreamAlways, StreamsInOrder, PTL DEF Spec, ImplementsStream, Stream!Spec

-----------------------------------------------------------------------------
(* No change slips.                                                        *)

LEMMA SlipsStep == StreamInv /\ NothingSlips /\ [Next]_vars => NothingSlips'
<1> SUFFICES ASSUME StreamInv, NothingSlips, [Next]_vars PROVE NothingSlips'
  OBVIOUS
<1> USE DEF StreamInv, SocketTypeOK, StreamsIfOpen, NothingSlips, Streaming, changes, stream, channel, slots, login, session
<1>0. CASE UNCHANGED vars
  BY <1>0 DEF vars
<1>1. CASE Write
  BY <1>1, SocketAssumption DEF Write, Commit
<1>2. CASE Compact
  BY <1>2, SocketAssumption DEF Compact
<1>3. CASE PauseEnds
  BY <1>3, SocketAssumption DEF PauseEnds
<1>4. CASE Revoke
  BY <1>4, SocketAssumption DEF Revoke
<1>5. ASSUME NEW t \in revoked, NotifyAuthRevoked(t) PROVE NothingSlips'
  BY <1>5, SocketAssumption DEF NotifyAuthRevoked
<1>6. CASE Expire
  BY <1>6, SocketAssumption DEF Expire
<1>7. ASSUME NEW k \in unsent, NotifyScope(k) PROVE NothingSlips'
  <2> SUFFICES ASSUME NEW c \in Conns, NEW j \in log', (stage[c] = "open" /\ Streaming(c) /\ j > cursor[c])'
               PROVE  (j \in unsent \cup inbox[c] \cup missed[c])'
    BY DEF Streaming
  <2>1. stage[c] = "open" /\ Streaming(c) /\ j \in log /\ j > cursor[c] /\ unsent' = unsent \ {k}
    BY <1>7 DEF NotifyScope, Streaming
  <2>2. j \in unsent \cup inbox[c] \cup missed[c]
    BY <2>1
  <2>3. inbox[c] \subseteq inbox'[c] /\ missed[c] \subseteq missed'[c] /\ k \in inbox'[c] \cup missed'[c]
    BY <1>7, <2>1 DEF NotifyScope, InItsLedger
  <2> QED
    BY <2>1, <2>2, <2>3
<1>8. ASSUME NEW c \in Conns, Authenticate(c) PROVE NothingSlips'
  BY <1>8, SocketAssumption DEF Authenticate, Move
<1>9. ASSUME NEW c \in Conns, AddKey(c) PROVE NothingSlips'
  BY <1>9, SocketAssumption DEF AddKey, Move
<1>10. ASSUME NEW c \in Conns, CountSocket(c) PROVE NothingSlips'
  BY <1>10, SocketAssumption DEF CountSocket, Move
<1>11. ASSUME NEW c \in Conns, Refuse(c) PROVE NothingSlips'
  BY <1>11, SocketAssumption DEF Refuse, Move
<1>12. ASSUME NEW c \in Conns, JoinLedger(c) PROVE NothingSlips'
  BY <1>12, SocketAssumption DEF JoinLedger, Move, Join
<1>13. ASSUME NEW c \in Conns, Accept(c) PROVE NothingSlips'
  BY <1>13, SocketAssumption DEF Accept, Move, Join
<1>14. ASSUME NEW c \in Conns, JoinFails(c) PROVE NothingSlips'
  BY <1>14, SocketAssumption DEF JoinFails, Move, Forget
<1>15. ASSUME NEW c \in Conns, Disconnect(c) PROVE NothingSlips'
  BY <1>15, SocketAssumption DEF Disconnect, Move, Forget
<1>16. ASSUME NEW c \in Conns, ReadCount(c) PROVE NothingSlips'
  BY <1>16, SocketAssumption DEF ReadCount, Move, Forget
<1>17. ASSUME NEW c \in Conns, Release(c) PROVE NothingSlips'
  BY <1>17, SocketAssumption DEF Release, Move
<1>18. ASSUME NEW c \in Conns, Crash(c) PROVE NothingSlips'
  BY <1>18, SocketAssumption DEF Crash, Move, Forget
<1>19. ASSUME NEW c \in Conns, LedgerChanged(c) PROVE NothingSlips'
  <2>1. PICK to \in inbox[c] : /\ inbox' = [inbox EXCEPT ![c] = inbox[c] \ {to}]
                               /\ IF Newer(c, to) THEN Move(c, "open", "floor") ELSE UNCHANGED stage
    BY <1>19 DEF LedgerChanged
  <2>2. \A d \in Conns : stage'[d] = "open" => stage[d] = "open"
    BY <2>1 DEF Move
  <2> SUFFICES ASSUME NEW d \in Conns, NEW j \in log', (stage[d] = "open" /\ Streaming(d) /\ j > cursor[d])'
               PROVE  (j \in unsent \cup inbox[d] \cup missed[d])'
    BY DEF Streaming
  <2>3. UNCHANGED <<log, cursor, unsent, missed>>
    BY <1>19 DEF LedgerChanged
  <2>4. j \in unsent \cup inbox[d] \cup missed[d]
    BY <2>2, <2>3
  <2>5. CASE d # c
    BY <2>1, <2>3, <2>4, <2>5
  <2>6. CASE d = c
    <3>1. ~Newer(c, to)
      BY <1>19, <2>1, <2>6 DEF LedgerChanged, Move
    <3>2. ~(cursor[c] < to) /\ cursor[c] \in Nat /\ to \in Nat
      BY <3>1, <2>3, <2>6 DEF Newer
    <3>3. j # to
      BY <3>2, <2>3, <2>6
    <3> QED
      BY <2>1, <2>3, <2>4, <2>6, <3>3
  <2> QED
    BY <2>5, <2>6
<1>20. ASSUME NEW c \in Conns, ReadFloor(c) PROVE NothingSlips'
  BY <1>20, SocketAssumption DEF ReadFloor, Move
<1>21. ASSUME NEW c \in Conns, SendPage(c) PROVE NothingSlips'
  <2> SUFFICES ASSUME NEW d \in Conns, NEW j \in log', (stage[d] = "open" /\ Streaming(d) /\ j > cursor[d])'
               PROVE  (j \in unsent \cup inbox[d] \cup missed[d])'
    BY DEF Streaming
  <2>1. UNCHANGED <<log, unsent, inbox, missed>> /\ cursor' = [cursor EXCEPT ![c] = ToCursor(cursor[c])]
    BY <1>21 DEF SendPage
  <2>2. CASE d # c
    BY <1>21, <2>1, <2>2 DEF SendPage, Move
  <2>3. CASE d = c
    <3>1. ~HasMore(cursor[c]) /\ cursor[c] \in Nat /\ cursor[c] # NoCursor
      BY <1>21, <2>3 DEF SendPage, Move
    <3>2. CASE Page(cursor[c]) = {}
      BY <2>1, <2>3, <3>1, <3>2 DEF HasMore, After, ToCursor
    <3>3. CASE Page(cursor[c]) # {}
      <4>1. \A i \in log : i <= Max(Page(cursor[c]))
        <5> HIDE DEF StreamInv
        <5> QED
          BY <3>1, <3>3, PageIsPrefix
      <4>2. cursor'[c] = Max(Page(cursor[c])) /\ Max(Page(cursor[c])) \in Nat
        <5>1. Max(Page(cursor[c])) \in log
          <6> HIDE DEF StreamInv
          <6> QED
            BY <3>1, <3>3, PageIsPrefix
        <5>2. \A i \in log : i \in Nat
          OBVIOUS
        <5>3. cursor'[c] = Max(Page(cursor[c]))
          BY <2>1, <3>3 DEF ToCursor
        <5> QED
          BY <5>1, <5>2, <5>3
      <4>3. j \in Nat /\ j \in log /\ j > cursor'[c]
        BY <2>1, <2>3
      <4> QED
        BY <4>1, <4>2, <4>3
    <3> QED
      BY <3>2, <3>3
  <2> QED
    BY <2>2, <2>3
<1>22. ASSUME NEW c \in Conns, AuthRevoked(c) PROVE NothingSlips'
  BY <1>22, SocketAssumption DEF AuthRevoked, Move, Forget
<1>23. ASSUME NEW c \in Conns, Hello(c) PROVE NothingSlips'
  BY <1>23, SocketAssumption DEF Hello, Move
<1>24. ASSUME NEW c \in Conns, HelloRefused(c) PROVE NothingSlips'
  BY <1>24, SocketAssumption DEF HelloRefused, Move, Forget
<1>25. ASSUME NEW c \in Conns, Push(c) PROVE NothingSlips'
  BY <1>25, SocketAssumption DEF Push, Move
<1>26. ASSUME NEW c \in Conns, ApplyPush(c) PROVE NothingSlips'
  BY <1>26, SocketAssumption DEF ApplyPush, Move, Commit
<1> QED
  BY <1>0, <1>1, <1>2, <1>3, <1>4, <1>5, <1>6, <1>7, <1>8, <1>9, <1>10, <1>11, <1>12, <1>13, <1>14, <1>15, <1>16, <1>17, <1>18, <1>19, <1>20, <1>21, <1>22, <1>23, <1>24, <1>25, <1>26
     DEF Next, Connecting, Closing, Handling, Talking

\* When a connection rests, every change it has not sent is about to be broadcast to it,
\* waits in its channel, or was in a broadcast that it missed.
THEOREM NoChangeSlips == Spec => []NothingSlips
<1>1. Init => NothingSlips
  BY DEF Init, NothingSlips
<1> QED
  BY <1>1, StreamAlways, SlipsStep, PTL DEF Spec
-----------------------------------------------------------------------------
(* Revoked tokens.                                                         *)

\* Only revocations that were made are broadcast, nobody comes in with a token that is
\* yet to be issued, and whoever is open is in the group of the user.
LoginInv ==
  /\ \A t \in revoked : t < token
  /\ \A c \in Conns : auth[c] <= token /\ (Open(c) => InAuthGroup(c))
  /\ RevokedIsTold

LEMMA LoginStep == StreamInv /\ LoginInv /\ [Next]_vars => LoginInv'
<1> SUFFICES ASSUME StreamInv, LoginInv, [Next]_vars PROVE LoginInv'
  OBVIOUS
<1> USE DEF StreamInv, SocketTypeOK, LoginInv, RevokedIsTold, Open, InAuthGroup, changes, stream, channel, slots, login, session
<1>0. CASE UNCHANGED vars
  BY <1>0 DEF vars
<1>1. CASE Write
  BY <1>1 DEF Write, Commit
<1>2. CASE Compact
  BY <1>2 DEF Compact
<1>3. CASE PauseEnds
  BY <1>3 DEF PauseEnds
<1>4. CASE Revoke
  <2>1. token' = token + 1 /\ revoked' = revoked \cup {token} /\ UNCHANGED <<stage, channel, auth>>
    BY <1>4 DEF Revoke
  <2>2. \A c \in Conns : auth[c] < token' => auth[c] < token \/ auth[c] \in revoked'
    BY <2>1
  <2> QED
    BY <2>1, <2>2
<1>5. ASSUME NEW t \in revoked, NotifyAuthRevoked(t) PROVE LoginInv'
  <2>1. revoked' = revoked \ {t} /\ UNCHANGED <<stage, auth, token, groups>>
    BY <1>5 DEF NotifyAuthRevoked
  <2>2. ASSUME NEW c \in Conns PROVE (told[c] > 0 => told'[c] > 0) /\ (unheard[c] => unheard'[c])
    BY <1>5 DEF NotifyAuthRevoked
  <2>3. ASSUME NEW c \in Conns, Open(c), auth[c] = t PROVE told'[c] > 0 \/ unheard'[c]
    <3>1. InAuthGroup(c)
      BY <2>3
    <3>2. CASE unheard' = [d \in Conns |-> unheard[d] \/ d \in {e \in Conns : InAuthGroup(e) /\ auth[e] = t}]
      BY <2>3, <3>1, <3>2
    <3>3. CASE /\ told' = [d \in Conns |-> IF InAuthGroup(d) /\ ~Full(d) THEN told[d] + 1 ELSE told[d]]
               /\ unheard' = [d \in Conns |-> unheard[d] \/ d \in {e \in Conns : InAuthGroup(e) /\ Full(e) /\ auth[e] = t}]
      <4>1. CASE Full(c)
        BY <2>3, <3>1, <3>3, <4>1
      <4>2. CASE ~Full(c)
        <5>1. told'[c] = told[c] + 1 /\ told[c] \in Nat
          BY <3>1, <3>3, <4>2
        <5> QED
          BY <5>1
      <4> QED
        BY <4>1, <4>2
    <3> QED
      BY <1>5, <3>2, <3>3 DEF NotifyAuthRevoked
  <2>4. \A c \in Conns : Open(c) /\ auth[c] < token => told'[c] > 0 \/ auth[c] \in revoked' \/ unheard'[c]
    BY <2>1, <2>2, <2>3
  <2> QED
    BY <2>1, <2>4
<1>6. CASE Expire
  BY <1>6 DEF Expire
<1>7. ASSUME NEW k \in unsent, NotifyScope(k) PROVE LoginInv'
  BY <1>7 DEF NotifyScope
<1>8. ASSUME NEW c \in Conns, Authenticate(c) PROVE LoginInv'
  BY <1>8 DEF Authenticate, Move
<1>9. ASSUME NEW c \in Conns, AddKey(c) PROVE LoginInv'
  BY <1>9 DEF AddKey, Move
<1>10. ASSUME NEW c \in Conns, CountSocket(c) PROVE LoginInv'
  BY <1>10 DEF CountSocket, Move
<1>11. ASSUME NEW c \in Conns, Refuse(c) PROVE LoginInv'
  BY <1>11 DEF Refuse, Move
<1>12. ASSUME NEW c \in Conns, JoinLedger(c) PROVE LoginInv'
  BY <1>12 DEF JoinLedger, Move, Join
<1>13. ASSUME NEW c \in Conns, Accept(c) PROVE LoginInv'
  <2>1. /\ UNCHANGED <<auth, token, revoked, told>>
        /\ stage' = [stage EXCEPT ![c] = "open"]
        /\ unheard' = [unheard EXCEPT ![c] = Announced(auth[c])]
        /\ groups' = [groups EXCEPT ![c] = groups[c] \cup {"auth"}]
    BY <1>13 DEF Accept, Move, Join
  <2>2. auth[c] < token => auth[c] \in revoked \/ unheard'[c]
    BY <2>1 DEF Announced
  <2>3. \A d \in Conns : d # c => stage'[d] = stage[d] /\ unheard'[d] = unheard[d]
    BY <2>1
  <2>4. \A d \in Conns : Open(d)' /\ auth'[d] < token' =>
          told'[d] > 0 \/ auth'[d] \in revoked' \/ unheard'[d]
    BY <2>1, <2>2, <2>3
  <2>5. \A d \in Conns : Open(d)' => InAuthGroup(d)'
    BY <2>1
  <2> QED
    BY <2>1, <2>4, <2>5
<1>14. ASSUME NEW c \in Conns, JoinFails(c) PROVE LoginInv'
  BY <1>14 DEF JoinFails, Move, Forget
<1>15. ASSUME NEW c \in Conns, Disconnect(c) PROVE LoginInv'
  BY <1>15 DEF Disconnect, Move, Forget
<1>16. ASSUME NEW c \in Conns, ReadCount(c) PROVE LoginInv'
  BY <1>16 DEF ReadCount, Move, Forget
<1>17. ASSUME NEW c \in Conns, Release(c) PROVE LoginInv'
  BY <1>17 DEF Release, Move
<1>18. ASSUME NEW c \in Conns, Crash(c) PROVE LoginInv'
  BY <1>18 DEF Crash, Move, Forget
<1>19. ASSUME NEW c \in Conns, LedgerChanged(c) PROVE LoginInv'
  BY <1>19 DEF LedgerChanged, Move
<1>20. ASSUME NEW c \in Conns, ReadFloor(c) PROVE LoginInv'
  BY <1>20 DEF ReadFloor, Move
<1>21. ASSUME NEW c \in Conns, SendPage(c) PROVE LoginInv'
  BY <1>21 DEF SendPage, Move
<1>22. ASSUME NEW c \in Conns, AuthRevoked(c) PROVE LoginInv'
  BY <1>22 DEF AuthRevoked, Move, Forget
<1>23. ASSUME NEW c \in Conns, Hello(c) PROVE LoginInv'
  BY <1>23 DEF Hello, Move
<1>24. ASSUME NEW c \in Conns, HelloRefused(c) PROVE LoginInv'
  BY <1>24 DEF HelloRefused, Move, Forget
<1>25. ASSUME NEW c \in Conns, Push(c) PROVE LoginInv'
  BY <1>25 DEF Push, Move
<1>26. ASSUME NEW c \in Conns, ApplyPush(c) PROVE LoginInv'
  BY <1>26 DEF ApplyPush, Move, Commit
<1> QED
  BY <1>0, <1>1, <1>2, <1>3, <1>4, <1>5, <1>6, <1>7, <1>8, <1>9, <1>10, <1>11, <1>12, <1>13, <1>14, <1>15, <1>16, <1>17, <1>18, <1>19, <1>20, <1>21, <1>22, <1>23, <1>24, <1>25, <1>26
     DEF Next, Connecting, Closing, Handling, Talking

\* No open connection keeps a revoked token unnoticed, unless the broadcast ran before it
\* had joined its group, failed or found its channel full.
THEOREM RevocationReaches == Spec => []RevokedIsTold
<1>1. Init => LoginInv
  BY DEF Init, LoginInv, RevokedIsTold, Open
<1>2. LoginInv => RevokedIsTold
  BY DEF LoginInv
<1> QED
  BY <1>1, <1>2, StreamAlways, LoginStep, PTL DEF Spec

-----------------------------------------------------------------------------
(* The limit of sockets.                                                   *)

Slots == {c \in Conns : Counted(c)}
Holding == {c \in Conns : Counted(c) /\ stage[c] # "over"}

\* Every slot is counted, and whoever was not over the limit when counted holds one of
\* those that the limit allows.
SlotsInv ==
  /\ count \in Int \cup {NoKey}
  /\ count = NoKey => Slots = {}
  /\ count # NoKey => count >= Cardinality(Slots)
  /\ Cardinality(Holding) <= SocketLimit

LEMMA SlotsAreFinite ==
  /\ IsFiniteSet(Slots) /\ Cardinality(Slots) \in Nat
  /\ IsFiniteSet(Holding) /\ Cardinality(Holding) \in Nat
<1>1. Slots \in SUBSET Conns /\ Holding \in SUBSET Conns /\ IsFiniteSet(Conns)
  BY SocketAssumption DEF Slots, Holding
<1> QED
  BY <1>1, FS_Subset, FS_CardinalityType

\* A step in which no connection takes or leaves a slot.
LEMMA SlotsAside ==
  ASSUME SlotsInv, count' = count,
         \A c \in Conns : (Counted(c))' = Counted(c) /\ (stage[c] = "over")' = (stage[c] = "over")
  PROVE  SlotsInv'
<1>1. Slots' = Slots /\ Holding' = Holding
  BY DEF Slots, Holding
<1> QED
  BY <1>1 DEF SlotsInv

\* A connection goes on with the slot it has.
LEMMA SlotKept ==
  ASSUME SlotsInv, StreamInv, count' = count, NEW c \in Conns,
         NEW s \in {"counted", "joined", "open", "floor", "page", "out", "release"},
         stage[c] \in {"counted", "joined", "open", "floor", "page", "out", "release"},
         stage' = [stage EXCEPT ![c] = s]
  PROVE  SlotsInv'
BY SlotsAside DEF StreamInv, SocketTypeOK, Counted

\* A connection takes a slot, which is counted.
LEMMA SlotTaken ==
  ASSUME SlotsInv, StreamInv, NEW c \in Conns, CountSocket(c)
  PROVE  SlotsInv'
<1> USE DEF StreamInv, SocketTypeOK
<1>1. CASE count = NoKey
  <2>1. count' = count /\ stage[c] = "added" /\ stage' = [stage EXCEPT ![c] = "closed"]
    BY <1>1 DEF CountSocket, Move
  <2> QED
    BY <2>1, SlotsAside DEF Counted
<1>2. CASE count # NoKey
  <2>1. count \in Int /\ count' = count + 1 /\ count' \in Int /\ count' # NoKey
    BY <1>2, SocketAssumption DEF CountSocket, SlotsInv
  <2>2. stage[c] = "added" /\ stage' = [stage EXCEPT ![c] = IF count' > SocketLimit THEN "over" ELSE "counted"]
    BY <1>2 DEF CountSocket, Move
  <2>3. Slots' = Slots \cup {c} /\ c \notin Slots
    BY <2>2 DEF Slots, Counted
  <2>4. Cardinality(Slots') = Cardinality(Slots) + 1 /\ IsFiniteSet(Slots')
    BY <2>3, SlotsAreFinite, FS_AddElement
  <2>5. count' >= Cardinality(Slots')
    BY <1>2, <2>1, <2>4, SlotsAreFinite DEF SlotsInv
  <2>6. Cardinality(Holding') <= SocketLimit
    <3>1. CASE count' > SocketLimit
      <4>1. Holding' = Holding
        BY <2>2, <3>1 DEF Holding, Counted
      <4> QED
        BY <4>1 DEF SlotsInv
    <3>2. CASE ~(count' > SocketLimit)
      <4>1. Holding' \in SUBSET Slots'
        BY DEF Holding, Slots
      <4>2. Cardinality(Holding') <= Cardinality(Slots') /\ IsFiniteSet(Holding')
        BY <2>4, <4>1, FS_Subset
      <4>3. Cardinality(Holding') \in Nat /\ Cardinality(Slots') \in Nat
        BY <2>4, <4>2, FS_CardinalityType
      <4> QED
        BY <2>1, <2>5, <3>2, <4>2, <4>3, SocketAssumption
    <3> QED
      BY <3>1, <3>2
  <2> QED
    BY <2>1, <2>5, <2>6 DEF SlotsInv
<1> QED
  BY <1>1, <1>2

\* A connection leaves its slot, which is given back once or not at all.
LEMMA SlotLeft ==
  ASSUME SlotsInv, StreamInv, NEW c \in Conns, stage' = [stage EXCEPT ![c] = "closed"],
         count' = count \/ (Counted(c) /\ Decrement)
  PROVE  SlotsInv'
<1> USE DEF StreamInv, SocketTypeOK
<1>1. Slots' = Slots \ {c} /\ Holding' \in SUBSET Holding
  BY DEF Slots, Holding, Counted
<1>2. Cardinality(Slots') = IF c \in Slots THEN Cardinality(Slots) - 1 ELSE Cardinality(Slots)
  BY <1>1, SlotsAreFinite, FS_RemoveElement
<1>3. Cardinality(Holding') <= SocketLimit
  <2>1. Cardinality(Holding') <= Cardinality(Holding) /\ IsFiniteSet(Holding')
    BY <1>1, SlotsAreFinite, FS_Subset
  <2> QED
    BY <2>1, SlotsAreFinite, FS_CardinalityType, SocketAssumption DEF SlotsInv
<1>4. CASE count = NoKey
  <2>1. count' = NoKey /\ Slots = {}
    BY <1>4 DEF SlotsInv, Decrement
  <2> QED
    BY <1>1, <1>3, <2>1 DEF SlotsInv
<1>5. CASE count # NoKey
  <2>1. count \in Int /\ count >= Cardinality(Slots)
    BY <1>5 DEF SlotsInv
  <2>2. count' \in Int /\ count' >= Cardinality(Slots')
    <3>1. CASE count' = count
      BY <1>2, <2>1, <3>1, SlotsAreFinite
    <3>2. CASE Counted(c) /\ Decrement
      <4>1. c \in Slots /\ count' = count - 1
        BY <1>5, <3>2 DEF Slots, Decrement
      <4> QED
        BY <1>2, <2>1, <4>1, SlotsAreFinite
    <3> QED
      BY <3>1, <3>2
  <2>3. count' # NoKey
    BY <2>2, SocketAssumption
  <2> QED
    BY <1>3, <2>2, <2>3 DEF SlotsInv
<1> QED
  BY <1>4, <1>5

LEMMA SlotsStep == StreamInv /\ SlotsInv /\ [Next]_vars => SlotsInv'
<1> SUFFICES ASSUME StreamInv, SlotsInv, [Next]_vars PROVE SlotsInv'
  OBVIOUS
<1> USE DEF changes, stream, channel, slots, login, session
<1>0. CASE UNCHANGED vars
  BY <1>0, SlotsAside DEF vars, Counted
<1>1. CASE Write
  BY <1>1, SlotsAside DEF Write, Counted
<1>2. CASE Compact
  BY <1>2, SlotsAside DEF Compact, Counted
<1>3. CASE PauseEnds
  BY <1>3, SlotsAside DEF PauseEnds, Counted
<1>4. CASE Revoke
  BY <1>4, SlotsAside DEF Revoke, Counted
<1>5. ASSUME NEW t \in revoked, NotifyAuthRevoked(t) PROVE SlotsInv'
  BY <1>5, SlotsAside DEF NotifyAuthRevoked, Counted
<1>6. CASE Expire
  <2>1. Slots = {} /\ Slots' = {} /\ Holding' = Holding /\ count' = NoKey
    BY <1>6 DEF Expire, Slots, Holding, Counted
  <2> QED
    BY <2>1 DEF SlotsInv
<1>7. ASSUME NEW k \in unsent, NotifyScope(k) PROVE SlotsInv'
  BY <1>7, SlotsAside DEF NotifyScope, Counted
<1>8. ASSUME NEW c \in Conns, Authenticate(c) PROVE SlotsInv'
  BY <1>8, SlotsAside DEF Authenticate, Move, Counted
<1>9. ASSUME NEW c \in Conns, AddKey(c) PROVE SlotsInv'
  <2>1. stage[c] = "known" /\ stage' = [stage EXCEPT ![c] = "added"]
    BY <1>9 DEF AddKey, Move
  <2>2. CASE count # NoKey
    BY <1>9, <2>1, <2>2, SlotsAside DEF AddKey, Counted
  <2>3. CASE count = NoKey
    <3>1. count' = 0 /\ Slots = {} /\ Slots' = Slots /\ Holding' = Holding
      BY <1>9, <2>1, <2>3 DEF AddKey, SlotsInv, Slots, Holding, Counted
    <3> QED
      BY <3>1, FS_EmptySet, SocketAssumption DEF SlotsInv
  <2> QED
    BY <2>2, <2>3
<1>10. ASSUME NEW c \in Conns, CountSocket(c) PROVE SlotsInv'
  BY <1>10, SlotTaken
<1>11. ASSUME NEW c \in Conns, Refuse(c) PROVE SlotsInv'
  BY <1>11, SlotLeft DEF Refuse, Move, Counted
<1>12. ASSUME NEW c \in Conns, JoinLedger(c) PROVE SlotsInv'
  BY <1>12, SlotsAside DEF JoinLedger, Move, Join, Counted
<1>13. ASSUME NEW c \in Conns, Accept(c) PROVE SlotsInv'
  BY <1>13, SlotsAside DEF Accept, Move, Join, Counted
<1>14. ASSUME NEW c \in Conns, JoinFails(c) PROVE SlotsInv'
  <2>1. stage[c] \in {"counted", "joined", "open", "floor"} /\ UNCHANGED count
    BY <1>14 DEF JoinFails, Move
  <2>2. PICK s \in {"out"} : stage' = [stage EXCEPT ![c] = s]
    BY <1>14 DEF JoinFails, Move
  <2> QED
    BY <2>1, <2>2, SlotKept
<1>15. ASSUME NEW c \in Conns, Disconnect(c) PROVE SlotsInv'
  BY <1>15, SlotsAside DEF Disconnect, Move, Counted
<1>16. ASSUME NEW c \in Conns, ReadCount(c) PROVE SlotsInv'
  <2>1. stage[c] = "out" /\ UNCHANGED count
    BY <1>16 DEF ReadCount
  <2>2. CASE stage' = [stage EXCEPT ![c] = "release"]
    BY <2>1, <2>2, SlotsAside DEF Counted
  <2>3. CASE stage' = [stage EXCEPT ![c] = "closed"]
    BY <2>1, <2>3, SlotLeft
  <2> QED
    BY <1>16, <2>2, <2>3 DEF ReadCount, Move
<1>17. ASSUME NEW c \in Conns, Release(c) PROVE SlotsInv'
  BY <1>17, SlotLeft DEF Release, Move, Counted
<1>18. ASSUME NEW c \in Conns, Crash(c) PROVE SlotsInv'
  BY <1>18, SlotLeft DEF Crash
<1>19. ASSUME NEW c \in Conns, LedgerChanged(c) PROVE SlotsInv'
  <2>1. stage[c] \in {"counted", "joined", "open", "floor"} /\ UNCHANGED count
    BY <1>19 DEF LedgerChanged, Move
  <2>2. PICK s \in {"open", "floor"} : stage' = [stage EXCEPT ![c] = s]
    BY <1>19 DEF LedgerChanged, Move, StreamInv, SocketTypeOK
  <2> QED
    BY <2>1, <2>2, SlotKept
<1>20. ASSUME NEW c \in Conns, ReadFloor(c) PROVE SlotsInv'
  <2>1. stage[c] \in {"counted", "joined", "open", "floor"} /\ UNCHANGED count
    BY <1>20 DEF ReadFloor, Move
  <2>2. PICK s \in {"open", "page"} : stage' = [stage EXCEPT ![c] = s]
    BY <1>20 DEF ReadFloor, Move
  <2> QED
    BY <2>1, <2>2, SlotKept
<1>21. ASSUME NEW c \in Conns, SendPage(c) PROVE SlotsInv'
  BY <1>21, SlotsAside DEF SendPage, Move, Counted
<1>22. ASSUME NEW c \in Conns, AuthRevoked(c) PROVE SlotsInv'
  BY <1>22, SlotsAside DEF AuthRevoked, Move, Counted
<1>23. ASSUME NEW c \in Conns, Hello(c) PROVE SlotsInv'
  <2>1. stage[c] \in {"counted", "joined", "open", "floor"} /\ UNCHANGED count
    BY <1>23 DEF Hello, Move
  <2>2. PICK s \in {"open", "floor"} : stage' = [stage EXCEPT ![c] = s]
    BY <1>23 DEF Hello, Move, StreamInv, SocketTypeOK
  <2> QED
    BY <2>1, <2>2, SlotKept
<1>24. ASSUME NEW c \in Conns, HelloRefused(c) PROVE SlotsInv'
  BY <1>24, SlotsAside DEF HelloRefused, Move, Counted
<1>25. ASSUME NEW c \in Conns, Push(c) PROVE SlotsInv'
  BY <1>25, SlotsAside DEF Push, Move, Counted
<1>26. ASSUME NEW c \in Conns, ApplyPush(c) PROVE SlotsInv'
  BY <1>26, SlotsAside DEF ApplyPush, Move, Counted
<1> QED
  BY <1>0, <1>1, <1>2, <1>3, <1>4, <1>5, <1>6, <1>7, <1>8, <1>9, <1>10, <1>11, <1>12, <1>13, <1>14, <1>15, <1>16, <1>17, <1>18, <1>19, <1>20, <1>21, <1>22, <1>23, <1>24, <1>25, <1>26
     DEF Next, Connecting, Closing, Handling, Talking

\* The counter is never below the slots that are taken, and no more sockets are open than
\* the limit allows, however the calls to the cache follow each other.
THEOREM SocketsLimited == Spec => []WithinSocketLimit
<1>1. Init => SlotsInv
  <2> SUFFICES ASSUME Init PROVE SlotsInv
    OBVIOUS
  <2>1. count = NoKey /\ Slots = {} /\ Holding = {}
    BY DEF Init, Slots, Holding, Counted
  <2> QED
    BY <2>1, FS_EmptySet, SocketAssumption DEF SlotsInv
<1>2. SlotsInv => WithinSocketLimit
  <2> SUFFICES ASSUME SlotsInv PROVE WithinSocketLimit
    OBVIOUS
  <2> DEFINE Opened == {c \in Conns : Open(c)}
  <2>1. Opened \in SUBSET Holding
    BY DEF Holding, Counted, Open
  <2>2. IsFiniteSet(Opened) /\ Cardinality(Opened) <= Cardinality(Holding)
    <3> HIDE DEF Opened
    <3> QED
      BY <2>1, SlotsAreFinite, FS_Subset
  <2>3. Cardinality(Opened) <= SocketLimit
    <3> HIDE DEF Opened
    <3> QED
      BY <2>2, SlotsAreFinite, FS_CardinalityType, SocketAssumption DEF SlotsInv
  <2>4. Cardinality(Slots) > 0 => count # NoKey /\ count >= Cardinality(Slots)
    BY FS_EmptySet, SlotsAreFinite DEF SlotsInv
  <2> QED
    BY <2>3, <2>4 DEF WithinSocketLimit, Slots
<1> QED
  BY <1>1, <1>2, StreamAlways, SlotsStep, PTL DEF Spec
=============================================================================
