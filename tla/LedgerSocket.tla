---------------------------- MODULE LedgerSocket ----------------------------
(***************************************************************************)
(* The web socket of protocol v2: ledger/consumers.py and ws_auth.py, the  *)
(* broadcasts of ledger/sync_log.py and the reads of ledger/sync_v2.py     *)
(* that it makes.  The connections of one user, whose ledger is one scope. *)
(*                                                                         *)
(* A connection handles one message at a time; between two awaits, other   *)
(* connections, writers and broadcasts run.  Redis carries the broadcasts  *)
(* and the counter of open sockets: each call to it is a step.             *)
(*                                                                         *)
(* A change is its primary key.  The key of the counter has a timeout that *)
(* each ping of an open socket renews; clients ping well within it.        *)
(***************************************************************************)
EXTENDS Integers, FiniteSets, FiniteSetsExt

CONSTANTS
  Conns,        \* connections a client may open
  NoCursor,     \* nothing is streamed on the connection
  NoKey,        \* the counter is not in the cache
  SocketLimit,  \* sockets a user may have open
  PageSize,     \* the limit of a feed page
  Capacity,     \* events a channel holds before more are dropped
  MaxPk,        \* bound: changes ever committed
  MaxTokens,    \* bound: tokens ever issued
  MaxCount      \* bound: how far crashes may drive the counter

ASSUME SocketAssumption ==
  /\ SocketLimit \in Nat \ {0} /\ PageSize \in Nat \ {0} /\ Capacity \in Nat \ {0}
  /\ MaxPk \in Nat /\ MaxTokens \in Nat \ {0} /\ MaxCount \in Nat
  /\ IsFiniteSet(Conns) /\ NoCursor \notin Int /\ NoKey \notin Int

VARIABLES
  last,     \* the newest change committed
  log,      \* the changes compaction has kept
  floor,    \* SyncCursorFloor
  unsent,   \* changes committed whose on_commit broadcast has not run
  paused,   \* broadcasts pause after one that failed
  stage,    \* what the connection is doing
  cursor,   \* sent_cursor
  inbox,    \* ledger.changed events waiting in the channel, by their "to"
  told,     \* how many auth.revoked events wait in the channel
  groups,   \* the groups the channel has joined
  bound,    \* hello_done, and with a device
  pushing,  \* push_busy
  count,    \* the counter of the user's sockets in the cache
  token,    \* the user's valid token
  revoked,  \* tokens revoked whose on_commit broadcast has not run
  auth,     \* the token the connection was let in with
  got,      \* history: what the client was sent since its hello
  missed,   \* history: changes whose broadcast did not reach the connection
  unheard   \* history: the revocation of the token was broadcast before the connection
            \* had joined its group, or in a broadcast that failed or found its channel full

changes == <<last, log, floor, unsent, paused>>
stream == <<cursor, got>>
channel == <<inbox, told, groups, missed, unheard>>
slots == <<count>>
login == <<token, revoked, auth>>
session == <<bound, pushing>>
vars == <<changes, stage, stream, channel, slots, login, session>>

-----------------------------------------------------------------------------
(* Writers, compaction and broadcasts.                                     *)

Init ==
  /\ last = 0 /\ log = {} /\ floor = 0 /\ unsent = {} /\ paused = FALSE
  /\ stage = [c \in Conns |-> "closed"]
  /\ cursor = [c \in Conns |-> NoCursor] /\ got = [c \in Conns |-> {}]
  /\ inbox = [c \in Conns |-> {}] /\ told = [c \in Conns |-> 0]
  /\ groups = [c \in Conns |-> {}]
  /\ missed = [c \in Conns |-> {}] /\ unheard = [c \in Conns |-> FALSE]
  /\ bound = [c \in Conns |-> "no"] /\ pushing = [c \in Conns |-> FALSE]
  /\ count = NoKey
  /\ token = 1 /\ revoked = {} /\ auth = [c \in Conns |-> 0]

\* A transaction appends a change and leaves its broadcast to on_commit.
Commit ==
  /\ last < MaxPk
  /\ last' = last + 1
  /\ log' = log \cup {last'}
  /\ unsent' = unsent \cup {last'}
  /\ UNCHANGED <<floor, paused>>

Write == Commit /\ UNCHANGED <<stage, stream, channel, slots, login, session>>

\* compact_sync_log removes superseded changes, here any but the newest, and
\* raises the floor in the same transaction.
Compact ==
  /\ \E gone \in SUBSET (log \ {last}) :
       /\ gone # {}
       /\ log' = log \ gone
       /\ floor' = Max(gone \cup {floor})
  /\ UNCHANGED <<last, unsent, paused, stage, stream, channel, slots, login, session>>

InLedgerGroup(c) == "ledger" \in groups[c]
InAuthGroup(c) == "auth" \in groups[c]
Full(c) == Cardinality(inbox[c]) + told[c] >= Capacity

\* notify_scope.  A broadcast is skipped while paused; one that fails begins a
\* pause; a channel that is full drops it.
NotifyScope(k) ==
  LET members == {c \in Conns : InLedgerGroup(c)}
      Reached(c) == c \in members /\ ~Full(c)
      Sent == /\ ~paused /\ UNCHANGED paused
              /\ inbox' = [c \in Conns |-> IF Reached(c) THEN inbox[c] \cup {k} ELSE inbox[c]]
              /\ missed' = [c \in Conns |-> IF c \in members /\ ~Reached(c) THEN missed[c] \cup {k}
                                            ELSE missed[c]]
      Lost == /\ paused' = TRUE /\ UNCHANGED inbox
              /\ missed' = [c \in Conns |-> IF c \in members THEN missed[c] \cup {k} ELSE missed[c]]
  IN /\ k \in unsent
     /\ unsent' = unsent \ {k}
     /\ Sent \/ Lost
     /\ UNCHANGED <<last, log, floor, stage, stream, told, groups, unheard, slots, login, session>>

PauseEnds ==
  /\ paused
  /\ paused' = FALSE
  /\ UNCHANGED <<last, log, floor, unsent, stage, stream, channel, slots, login, session>>

\* The token is deleted, by logout, a new login or a password reset, and another issued.
Revoke ==
  /\ token < MaxTokens
  /\ token' = token + 1
  /\ revoked' = revoked \cup {token}
  /\ UNCHANGED <<changes, stage, stream, channel, slots, auth, session>>

\* notify_auth_revoked tries even while broadcasts are paused; like any other event,
\* a channel that is full drops it.
NotifyAuthRevoked(t) ==
  LET members == {c \in Conns : InAuthGroup(c)}
      Unheard(S) == unheard' = [c \in Conns |-> unheard[c] \/ c \in S]
      Sent == /\ told' = [c \in Conns |-> IF c \in members /\ ~Full(c) THEN told[c] + 1 ELSE told[c]]
              /\ Unheard({c \in members : Full(c) /\ auth[c] = t})
              /\ UNCHANGED paused
      Lost == /\ paused' = TRUE
              /\ Unheard({c \in members : auth[c] = t})
              /\ UNCHANGED told
  IN /\ t \in revoked
     /\ revoked' = revoked \ {t}
     /\ Sent \/ Lost
     /\ UNCHANGED <<last, log, floor, unsent, stage, stream, inbox, groups, missed, slots, token,
                   auth, session>>

-----------------------------------------------------------------------------
(* connect and disconnect.                                                 *)

Move(c, from, to) == stage[c] = from /\ stage' = [stage EXCEPT ![c] = to]

\* TokenOrSessionAuthMiddleware looks the token up.
Authenticate(c) ==
  /\ Move(c, "closed", "known")
  /\ auth' = [auth EXCEPT ![c] = token]
  /\ UNCHANGED <<changes, stream, channel, slots, token, revoked, session>>

\* cache.add
AddKey(c) ==
  /\ Move(c, "known", "added")
  /\ count' = IF count = NoKey THEN 0 ELSE count
  /\ UNCHANGED <<changes, stream, channel, login, session>>

\* cache.incr raises when the key has expired since, and the connection is refused;
\* else it counts, and over the limit it is taken back and refused.
CountSocket(c) ==
  /\ stage[c] = "added"
  /\ IF count = NoKey
     THEN Move(c, "added", "closed") /\ UNCHANGED count
     ELSE /\ count < MaxCount
          /\ count' = count + 1
          /\ Move(c, "added", IF count' > SocketLimit THEN "over" ELSE "counted")
  /\ UNCHANGED <<changes, stream, channel, login, session>>

Decrement == count' = IF count = NoKey THEN NoKey ELSE count - 1

\* Mutant: a connection that was refused gives back a slot when it closes, too.
RefuseAndRelease(c) ==
  /\ Move(c, "over", "out")
  /\ Decrement
  /\ UNCHANGED <<changes, stream, channel, login, session>>

Refuse(c) ==
  /\ Move(c, "over", "closed")
  /\ Decrement
  /\ UNCHANGED <<changes, stream, channel, login, session>>

Join(c, group) == groups' = [groups EXCEPT ![c] = @ \cup {group}]

JoinLedger(c) ==
  /\ Move(c, "counted", "joined")
  /\ Join(c, "ledger")
  /\ UNCHANGED <<changes, stream, inbox, told, missed, unheard, slots, login, session>>

\* The token is revoked, and the broadcast that says so has run.
Announced(t) == t < token /\ t \notin revoked

\* Mutant: the connection is accepted without joining the group of its user.
AcceptOnly(c) ==
  /\ Move(c, "joined", "open")
  /\ unheard' = [unheard EXCEPT ![c] = Announced(auth[c])]
  /\ UNCHANGED <<changes, stream, inbox, told, groups, missed, slots, login, session>>

\* The second group is joined and the connection is accepted.
Accept(c) ==
  /\ Move(c, "joined", "open")
  /\ Join(c, "auth")
  /\ unheard' = [unheard EXCEPT ![c] = Announced(auth[c])]
  /\ UNCHANGED <<changes, stream, inbox, told, missed, slots, login, session>>

Forget(c) ==
  /\ cursor' = [cursor EXCEPT ![c] = NoCursor] /\ got' = [got EXCEPT ![c] = {}]
  /\ inbox' = [inbox EXCEPT ![c] = {}] /\ told' = [told EXCEPT ![c] = 0]
  /\ groups' = [groups EXCEPT ![c] = {}]
  /\ missed' = [missed EXCEPT ![c] = {}] /\ unheard' = [unheard EXCEPT ![c] = FALSE]
  /\ bound' = [bound EXCEPT ![c] = "no"] /\ pushing' = [pushing EXCEPT ![c] = FALSE]
  /\ auth' = [auth EXCEPT ![c] = 0]

\* Joining a group raises; nothing that comes for the channel is handled any more.
JoinFails(c) ==
  /\ Move(c, "counted", "out") \/ Move(c, "joined", "out")
  /\ Forget(c)
  /\ UNCHANGED <<changes, slots, token, revoked>>

\* The client is gone: the push task is cancelled and the groups are left, and
\* what still comes for the channel is not handled.
Disconnect(c) ==
  /\ Move(c, "open", "out")
  /\ Forget(c)
  /\ UNCHANGED <<changes, slots, token, revoked>>

\* release_socket reads the counter and then decrements it.
ReadCount(c) ==
  /\ stage[c] = "out"
  /\ Move(c, "out", IF count # NoKey /\ count > 0 THEN "release" ELSE "closed")
  /\ Forget(c)
  /\ UNCHANGED <<changes, slots, token, revoked>>

Release(c) ==
  /\ Move(c, "release", "closed")
  /\ Decrement
  /\ UNCHANGED <<changes, stream, channel, login, session>>

\* The server process dies, or leaving a group raises: the slot stays taken.
Crash(c) ==
  /\ stage[c] # "closed"
  /\ stage' = [stage EXCEPT ![c] = "closed"]
  /\ Forget(c)
  /\ UNCHANGED <<changes, slots, token, revoked>>

\* No open socket has pinged and nobody has connected for as long as the timeout.
Expire ==
  /\ count # NoKey
  /\ \A c \in Conns : stage[c] \in {"closed", "known", "added"}
  /\ count' = NoKey
  /\ UNCHANGED <<changes, stage, stream, channel, login, session>>

-----------------------------------------------------------------------------
(* Messages.                                                               *)

\* welcome: with a cursor below the floor the client is told to bootstrap and nothing
\* is streamed.  A browser tab binds no device.
Hello(c) ==
  /\ stage[c] = "open" /\ bound[c] = "no"
  /\ \E device \in {"tab", "phone"} : bound' = [bound EXCEPT ![c] = device]
  /\ \E from \in 0..last :
       \/ from < floor /\ UNCHANGED <<stage, stream>>
       \/ /\ from >= floor
          /\ stage' = [stage EXCEPT ![c] = "floor"]
          /\ cursor' = [cursor EXCEPT ![c] = from]
          /\ got' = [got EXCEPT ![c] = {}]
  /\ UNCHANGED <<changes, channel, slots, login, pushing>>

\* The hello of a device that is linked to another account.
HelloRefused(c) ==
  /\ bound[c] = "no"
  /\ Move(c, "open", "out")
  /\ Forget(c)
  /\ UNCHANGED <<changes, slots, token, revoked>>

\* Mutant: an event for the next change is taken for one already sent.
NewerByOne(c, to) == cursor[c] # NoCursor /\ cursor[c] + 1 < to

Newer(c, to) == cursor[c] # NoCursor /\ cursor[c] < to

\* ledger_changed
LedgerChanged(c) ==
  /\ stage[c] = "open"
  /\ \E to \in inbox[c] :
       /\ inbox' = [inbox EXCEPT ![c] = @ \ {to}]
       /\ IF Newer(c, to) THEN Move(c, "open", "floor") ELSE UNCHANGED stage
  /\ UNCHANGED <<changes, stream, told, groups, missed, unheard, slots, login, session>>

\* _drain asks for a page: feed compares the cursor with the floor, then reads the rows.
ReadFloor(c) ==
  /\ stage[c] = "floor"
  /\ IF cursor[c] < floor
     THEN /\ Move(c, "floor", "open")
          /\ cursor' = [cursor EXCEPT ![c] = NoCursor]
          /\ got' = [got EXCEPT ![c] = {}]
     ELSE Move(c, "floor", "page") /\ UNCHANGED stream
  /\ UNCHANGED <<changes, channel, slots, login, session>>

After(k) == {j \in log : j > k}
Page(k) == {j \in After(k) : Cardinality({i \in After(k) : i <= j}) <= PageSize}

\* Mutant: the cursor goes to the newest change, whatever the page holds.
ToCursorLatest(k) == IF Page(k) = {} THEN k ELSE last

ToCursor(k) == IF Page(k) = {} THEN k ELSE Max(Page(k))

\* Mutant: one page is sent for an event.
HasMoreNever(k) == FALSE

HasMore(k) == After(k) # Page(k)

SendPage(c) ==
  /\ stage[c] = "page"
  /\ got' = [got EXCEPT ![c] = @ \cup Page(cursor[c])]
  /\ cursor' = [cursor EXCEPT ![c] = ToCursor(@)]
  /\ Move(c, "page", IF HasMore(cursor[c]) THEN "floor" ELSE "open")
  /\ UNCHANGED <<changes, channel, slots, login, session>>

\* auth_revoked closes the connection, and its disconnect follows.
AuthRevoked(c) ==
  /\ told[c] > 0
  /\ Move(c, "open", "out")
  /\ Forget(c)
  /\ UNCHANGED <<changes, slots, token, revoked>>

\* A push runs beside the other messages, one at a time per connection.
Push(c) ==
  /\ stage[c] = "open" /\ bound[c] = "phone" /\ ~pushing[c]
  /\ pushing' = [pushing EXCEPT ![c] = TRUE]
  /\ UNCHANGED <<changes, stage, stream, channel, slots, login, bound>>

\* _apply_push: the mutation commits a change, or is refused.
ApplyPush(c) ==
  /\ pushing[c]
  /\ pushing' = [pushing EXCEPT ![c] = FALSE]
  /\ Commit \/ UNCHANGED changes
  /\ UNCHANGED <<stage, stream, channel, slots, login, bound>>

-----------------------------------------------------------------------------
(* The specification.                                                      *)

Connecting(c) ==
  \/ Authenticate(c) \/ AddKey(c) \/ CountSocket(c) \/ Refuse(c)
  \/ JoinLedger(c) \/ Accept(c) \/ JoinFails(c)
Closing(c) ==
  Disconnect(c) \/ ReadCount(c) \/ Release(c) \/ Crash(c)
Handling(c) == LedgerChanged(c) \/ ReadFloor(c) \/ SendPage(c) \/ AuthRevoked(c)
Talking(c) == Hello(c) \/ HelloRefused(c) \/ Push(c) \/ ApplyPush(c)

Next ==
  \/ Write \/ Compact \/ PauseEnds \/ Revoke \/ Expire
  \/ \E k \in unsent : NotifyScope(k)
  \/ \E t \in revoked : NotifyAuthRevoked(t)
  \/ \E c \in Conns : Connecting(c) \/ Closing(c) \/ Handling(c) \/ Talking(c)

Spec == Init /\ [][Next]_vars

\* on_commit hooks run, and the event loop serves each channel's events in turn.
Fairness ==
  /\ WF_vars(\E k \in unsent : NotifyScope(k))
  /\ \A c \in Conns : WF_vars(Handling(c))

FairSpec == Spec /\ Fairness

-----------------------------------------------------------------------------
(* Properties.                                                             *)

Counted(c) ==
  stage[c] \in {"over", "counted", "joined", "open", "floor", "page", "out", "release"}
Open(c) == stage[c] \in {"open", "floor", "page"}
Streaming(c) == cursor[c] # NoCursor

\* No change slips between the hello, the broadcasts and the pages: when a connection
\* rests, every change it has not sent is about to be broadcast, waits in its channel
\* or was in a broadcast that failed, was skipped or found the channel full.
NothingSlips ==
  \A c \in Conns : stage[c] = "open" /\ Streaming(c) =>
    \A k \in log : k > cursor[c] => k \in unsent \cup inbox[c] \cup missed[c]

\* The counter is never below the sockets that hold a slot, whatever their calls to
\* the cache interleave with and however many crashes leak slots, so that a user never
\* has more sockets open than the limit.
WithinSocketLimit ==
  LET counted == Cardinality({c \in Conns : Counted(c)})
      open == Cardinality({c \in Conns : Open(c)})
  IN /\ counted > 0 => count # NoKey /\ count >= counted
     /\ open <= SocketLimit

\* No open connection keeps a revoked token unnoticed: the event that closes it waits in
\* its channel, or the broadcast is about to run, unless the broadcast ran before the
\* connection had joined its group, failed, or found its channel full.
RevokedIsTold ==
  \A c \in Conns : Open(c) /\ auth[c] < token =>
    told[c] > 0 \/ auth[c] \in revoked \/ unheard[c]

\* A streaming connection catches up again and again with every change that is kept,
\* but for those whose broadcast it missed and that no later one has brought.
CatchesUp ==
  \A c \in Conns :
    []<>(Streaming(c) => \A k \in log : k > cursor[c] => k \in missed[c])

\* The connection implements the stream that its client is promised.
Stream == INSTANCE ChangeStream WITH position <- cursor, received <- got
ImplementsStream == Stream!Spec
=============================================================================
