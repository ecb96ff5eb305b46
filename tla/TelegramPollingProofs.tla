------------------------ MODULE TelegramPollingProofs ------------------------
(***************************************************************************)
(* Proofs about TelegramPolling: types, and the invariant that ties the    *)
(* cursor, the inbox and what each poller holds in memory together.        *)
(***************************************************************************)
EXTENDS TelegramPolling, TLAPS

(* A poller past the start has a cursor in memory.                         *)
Started == \A p \in Process :
    pc[p] \in {"found", "init", "poll", "commit"} => own[p] \in Cursor

(* A poller that polls follows the durable cursor: the same epoch, and not *)
(* ahead of it.                                                            *)
Follows == \A p \in Process :
    /\ pc[p] = "found" => own[p].next = 0
    /\ pc[p] \in {"init", "poll", "commit"} =>
          /\ cursor # NoCursor
          /\ own[p].epoch = cursor.epoch
          /\ own[p].next <= cursor.next

(* A batch covers the updates between the two offsets.                     *)
Covers == \A p \in Process :
    pc[p] = "commit" =>
        /\ next[p] <= arrived + 1
        /\ \A u \in batch[p] : u < next[p]
        /\ \A u \in 1..arrived : u >= own[p].next /\ u < next[p] =>
              u \in batch[p] \/ u \in lapsed \/ Admitted(u)

(* Every row is of the epoch of the cursor and lies below its offset.      *)
Below ==
    /\ cursor.next <= arrived + 1
    /\ \A u \in Update, e \in Epoch : inbox[u][e] # "none" =>
          e = cursor.epoch /\ u < cursor.next

(* Every update below the offset is in the inbox, or has lapsed.           *)
Filled == \A u \in 1..arrived :
    u < cursor.next => u \in lapsed \/ Admitted(u)

Types == TypeOK /\ Started
PInv  == Types /\ Follows /\ Covers /\ Below /\ Filled /\ NothingLost

USE EpochAssumption, PollingBoundsAssumption

------------------------------------------------------------------------------
(* Types.                                                                  *)

LEMMA InitTypes == Init => Types
  <1> SUFFICES ASSUME Init PROVE Types
    OBVIOUS
  <1>1. /\ arrived \in 0..MaxUpdates /\ faults \in 0..MaxFaults
        /\ kept \in SUBSET (1..arrived) /\ lapsed \in SUBSET (1..arrived)
        /\ drawn \in SUBSET Epoch
    BY PollingBoundsAssumption DEF Init
  <1>5. idle \in BOOLEAN
    BY DEF Init
  <1>2. cursor \in Cursor \cup {NoCursor} /\ own \in [Process -> Cursor \cup {NoCursor}]
    BY DEF Init
  <1>3. /\ kind \in [Update -> Kind]
        /\ inbox \in [Update -> [Epoch -> InboxState]]
        /\ reason \in [Process -> Reason]
    BY DEF Init, Kind, InboxState, Reason
  <1>4. /\ pc \in [Process -> {"down", "start", "found", "init", "poll", "commit"}]
        /\ batch \in [Process -> SUBSET (1..arrived)]
        /\ next \in [Process -> Nat] /\ silent \in [Process -> BOOLEAN]
        /\ \A p \in Process : pc[p] = "down"
    BY DEF Init
  <1> QED
    BY <1>1, <1>2, <1>3, <1>4, <1>5 DEF Types, TypeOK, Started

(* A poller that ends stays well typed.                                    *)
LEMMA EndsTypes ==
    ASSUME Types, NEW p \in Process, NEW why \in Reason, Ends(p, why)
    PROVE  /\ pc' \in [Process -> {"down", "start", "found", "init", "poll", "commit"}]
           /\ own' \in [Process -> Cursor \cup {NoCursor}]
           /\ batch' \in [Process -> SUBSET (1..arrived)]
           /\ next' \in [Process -> Nat]
           /\ silent' \in [Process -> BOOLEAN]
           /\ reason' \in [Process -> Reason]
           /\ \A q \in Process : pc'[q] = "commit" => next'[q] > own'[q].next
           /\ \A q \in Process :
                pc'[q] \in {"found", "init", "poll", "commit"} => own'[q] \in Cursor
  BY DEF Ends, Types, TypeOK, Started, Cursor, NoCursor

(* What a batch inserts is well typed.                                     *)
LEMMA AcceptTypes ==
    ASSUME Types, NEW updates, NEW offset \in Nat, NEW epoch \in Epoch,
           Accept(updates, offset, epoch)
    PROVE  /\ cursor' \in Cursor
           /\ inbox' \in [Update -> [Epoch -> InboxState]]
  BY DEF Accept, Types, TypeOK, Cursor, Entry, InboxState, New

LEMMA NextTypes == Types /\ [Next]_vars => Types'
  <1> SUFFICES ASSUME Types, [Next]_vars PROVE Types'
    OBVIOUS
  <1> USE DEF Types, TypeOK, Started
  <1>1. ASSUME NEW p \in Process, Boot(p) PROVE Types'
    BY <1>1 DEF Boot, telegram, table, Reason
  <1>2. ASSUME NEW p \in Process, ReadCursor(p) \/ Initialize(p) PROVE Types'
    BY <1>2 DEF ReadCursor, Initialize, Goes, telegram, table
  <1>3. ASSUME NEW p \in Process, DrawEpoch(p) PROVE Types'
    BY <1>3 DEF DrawEpoch, Goes, telegram, Cursor
  <1>4. ASSUME NEW p \in Process, FoundStream(p) PROVE Types'
    <2>1. own[p] \in Cursor /\ own[p].epoch \in Epoch
      BY <1>4 DEF FoundStream, Cursor
    <2>2. CASE Ends(p, "conflict") /\ UNCHANGED <<telegram, table, faults>>
      BY <2>2, EndsTypes DEF telegram, table, Reason
    <2>3. CASE Accept({}, 0, own[p].epoch) /\ Goes(p, "init") /\ UNCHANGED <<own, telegram, drawn, faults>>
      BY <2>3, <2>1, <1>4, AcceptTypes DEF Goes, telegram, FoundStream
    <2> QED
      BY <1>4, <2>2, <2>3 DEF FoundStream, table
  <1>5. ASSUME NEW p \in Process, Poll(p) PROVE Types'
    <2>1. PICK last \in kept :
            /\ last >= own[p].next
            /\ batch' = [batch EXCEPT ![p] =
                           {u \in kept : u >= own[p].next /\ u <= last}]
            /\ next' = [next EXCEPT ![p] = NextOffset(last)]
      BY <1>5 DEF Poll
    <2>2. own[p] \in Cursor /\ own[p].next \in Nat /\ last \in Nat
      BY <1>5 DEF Poll, Cursor
    <2>3. batch' \in [Process -> SUBSET (1..arrived)]
      BY <2>1
    <2>4. next' \in [Process -> Nat] /\ next'[p] > own[p].next
      BY <2>1, <2>2 DEF NextOffset
    <2>5. kept' \in SUBSET (1..arrived)
      BY <1>5 DEF Poll, Forgets
    <2>6. /\ UNCHANGED <<arrived, kind, lapsed, own, reason, table, faults>>
          /\ pc' = [pc EXCEPT ![p] = "commit"]
          /\ idle' = FALSE /\ silent' = [silent EXCEPT ![p] = FALSE]
      BY <1>5 DEF Poll, Hears
    <2>7. \A q \in Process \ {p} : next'[q] = next[q] /\ pc'[q] = pc[q]
      BY <2>1, <2>6
    <2> QED
      BY <2>2, <2>3, <2>4, <2>5, <2>6, <2>7 DEF table
  <1>6. ASSUME NEW p \in Process, PollNothing(p) PROVE Types'
    BY <1>6 DEF PollNothing, Forgets, Hears, table
  <1>7. ASSUME NEW p \in Process, RequireReview(p) PROVE Types'
    BY <1>7, EndsTypes DEF RequireReview, telegram, table, Reason
  <1>8. ASSUME NEW p \in Process, Commit(p) PROVE Types'
    <2>1. own[p] \in Cursor /\ own[p].epoch \in Epoch /\ next[p] \in Nat
      BY <1>8 DEF Commit, Cursor
    <2>2. ASSUME NEW why \in {"conflict", "transient"}, Ends(p, why), UNCHANGED <<telegram, table, faults>>
          PROVE Types'
      BY <2>2, EndsTypes DEF telegram, table, Reason
    <2>3. CASE /\ Accept(batch[p], next[p], own[p].epoch)
               /\ own' = [own EXCEPT ![p].next = next[p]]
               /\ batch' = [batch EXCEPT ![p] = {}]
               /\ next' = [next EXCEPT ![p] = 0]
               /\ pc' = [pc EXCEPT ![p] = "poll"]
               /\ UNCHANGED <<silent, reason, telegram, drawn, faults>>
      <3>1. cursor' \in Cursor /\ inbox' \in [Update -> [Epoch -> InboxState]]
        BY <2>3, <2>1, AcceptTypes
      <3>2. own' \in [Process -> Cursor \cup {NoCursor}] /\ own'[p] \in Cursor
        BY <2>3, <2>1 DEF Cursor
      <3> QED
        BY <2>3, <3>1, <3>2 DEF telegram
    <2> QED
      BY <1>8, <2>2, <2>3 DEF Commit, table
  <1>9. ASSUME NEW p \in Process, NEW why \in Reason, Ends(p, why), Fault,
               UNCHANGED <<arrived, kind, lapsed, idle, table>>, kept' \in SUBSET kept
        PROVE Types'
    BY <1>9, EndsTypes DEF Fault, table
  <1>10. ASSUME NEW p \in Process, Crash(p) \/ InitializeFails(p) \/ StoreFails(p) PROVE Types'
    BY <1>10, <1>9 DEF Crash, InitializeFails, StoreFails, Reason, telegram
  <1>11. ASSUME NEW p \in Process, PollFails(p) PROVE Types'
    <2>1. kept' \in SUBSET kept
      BY <1>11 DEF PollFails, Forgets
    <2>2. CASE UNCHANGED poller
      BY <1>11, <2>1, <2>2 DEF PollFails, Fault, poller, table
    <2>3. ASSUME NEW why \in {"permanent", "conflict"}, Ends(p, why) PROVE Types'
      BY <1>11, <2>1, <2>3, <1>9 DEF PollFails, Reason
    <2> QED
      BY <1>11, <2>2, <2>3 DEF PollFails
  <1>12. CASE Arrive
    BY <1>12 DEF Arrive, table, poller, Update
  <1>13. CASE Lapse
    BY <1>13 DEF Lapse, Fault, table, poller
  <1>16. CASE Week
    BY <1>16 DEF Week, Fault, table
  <1>14. ASSUME NEW p \in Process, Settle(p) PROVE Types'
    BY <1>14 DEF Settle, InboxState, telegram, poller
  <1>15. CASE UNCHANGED vars
    BY <1>15 DEF vars, telegram, table, poller
  <1> QED
    BY <1>1, <1>2, <1>3, <1>4, <1>5, <1>6, <1>7, <1>8, <1>10, <1>11, <1>12,
       <1>13, <1>14, <1>15, <1>16 DEF Next, Polls, Fails

------------------------------------------------------------------------------
(* The invariant.                                                          *)

LEMMA InitPInv == Init => PInv
  <1> SUFFICES ASSUME Init PROVE PInv
    OBVIOUS
  <1>1. Types
    BY InitTypes
  <1>2. Follows /\ Covers
    BY DEF Init, Follows, Covers
  <1>3. Below
    BY DEF Init, Below, NoCursor
  <1>4. Filled /\ NothingLost
    BY DEF Init, Filled, NothingLost
  <1> QED
    BY <1>1, <1>2, <1>3, <1>4 DEF PInv

(* The types that the steps below use.                                     *)
LEMMA Typing ==
    ASSUME PInv
    PROVE  /\ arrived \in Nat /\ kept \subseteq 1..arrived /\ lapsed \subseteq 1..arrived
           /\ 1..arrived \subseteq Update
           /\ cursor \in Cursor \cup {NoCursor} /\ cursor.next \in Nat
           /\ (cursor = NoCursor <=> cursor \notin Cursor)
           /\ inbox \in [Update -> [Epoch -> InboxState]]
           /\ \A p \in Process : /\ own[p].next \in Nat /\ next[p] \in Nat
                                 /\ batch[p] \subseteq 1..arrived
  <1>1. /\ arrived \in 0..MaxUpdates /\ kept \subseteq 1..arrived
        /\ lapsed \subseteq 1..arrived /\ cursor \in Cursor \cup {NoCursor}
        /\ inbox \in [Update -> [Epoch -> InboxState]]
        /\ own \in [Process -> Cursor \cup {NoCursor}]
        /\ next \in [Process -> Nat]
        /\ batch \in [Process -> SUBSET (1..arrived)]
    BY DEF PInv, Types, TypeOK
  <1>2. \A c \in Cursor \cup {NoCursor} : c.next \in Nat /\ (c = NoCursor <=> c \notin Cursor)
    BY EpochAssumption DEF Cursor, NoCursor
  <1>3. arrived \in Nat /\ 1..arrived \subseteq Update
    BY <1>1, PollingBoundsAssumption DEF Update
  <1> QED
    BY <1>1, <1>2, <1>3

(* What is admitted stays so while the rows stay.                          *)
LEMMA SameRows ==
    ASSUME UNCHANGED inbox
    PROVE  \A u \in Update : Admitted(u)' <=> Admitted(u)
  BY DEF Admitted

(* A step that changes neither the store nor what has arrived and lapsed.  *)
LEMMA TableKept ==
    ASSUME PInv, UNCHANGED <<arrived, lapsed, cursor, inbox>>
    PROVE  /\ Below' /\ Filled'
           /\ UNCHANGED kept => NothingLost'
  <1>1. \A u \in 1..arrived : Admitted(u)' <=> Admitted(u)
    BY Typing, SameRows
  <1> QED
    BY <1>1 DEF PInv, Below, Filled, NothingLost

(* Only the poller p moves, and it holds no batch afterwards.              *)
LEMMA PollerMoves ==
    ASSUME PInv, NEW p \in Process, UNCHANGED <<arrived, lapsed, cursor, inbox>>,
           \A q \in Process \ {p} : /\ pc'[q] = pc[q] /\ own'[q] = own[q]
                                    /\ batch'[q] = batch[q] /\ next'[q] = next[q],
           pc'[p] # "commit",
           pc'[p] = "found" => own'[p].next = 0,
           pc'[p] \in {"init", "poll"} =>
              cursor # NoCursor /\ own'[p].epoch = cursor.epoch /\ own'[p].next <= cursor.next
    PROVE  Follows' /\ Covers'
  <1>1. \A u \in 1..arrived : Admitted(u)' <=> Admitted(u)
    BY Typing, SameRows
  <1>2. Follows'
    BY DEF PInv, Follows
  <1>3. Covers'
    BY <1>1 DEF PInv, Covers
  <1> QED
    BY <1>2, <1>3

LEMMA EndsMoves ==
    ASSUME PInv, NEW p \in Process, NEW why, Ends(p, why),
           UNCHANGED <<arrived, lapsed, cursor, inbox>>
    PROVE  Follows' /\ Covers'
  <1>1. \A q \in Process \ {p} : /\ pc'[q] = pc[q] /\ own'[q] = own[q]
                                 /\ batch'[q] = batch[q] /\ next'[q] = next[q]
    BY DEF Ends, PInv, Types, TypeOK
  <1>2. pc'[p] = "down"
    BY DEF Ends, PInv, Types, TypeOK
  <1> QED
    BY <1>1, <1>2, PollerMoves

(* What Telegram forgets at a request lies below the durable cursor.       *)
LEMMA ForgetsSafely ==
    ASSUME PInv, NEW p \in Process, pc[p] = "poll", Forgets(p),
           UNCHANGED <<arrived, lapsed, cursor, inbox>>
    PROVE  NothingLost'
  <1>1. \A u \in 1..arrived : Admitted(u)' <=> Admitted(u)
    BY Typing, SameRows
  <1>2. own[p].next <= cursor.next
    BY DEF PInv, Follows
  <1>3. ASSUME NEW u \in 1..arrived PROVE u \in kept' \/ u \in lapsed \/ Admitted(u)
    <2>1. CASE u \in kept /\ u < own[p].next
      BY <2>1, <1>2, Typing DEF PInv, Filled
    <2>2. CASE u \in kept /\ ~(u < own[p].next)
      BY <2>2, Typing DEF Forgets
    <2>3. CASE u \notin kept
      BY <2>3 DEF PInv, NothingLost
    <2> QED
      BY <2>1, <2>2, <2>3
  <1> QED
    BY <1>1, <1>3 DEF NothingLost

(* A batch that is accepted, of the epoch of the cursor, and that together *)
(* with what is there fills everything below its offset.                   *)
LEMMA AcceptSafely ==
    ASSUME PInv, NEW updates \in SUBSET (1..arrived), NEW offset \in Nat,
           NEW epoch \in Epoch, Accept(updates, offset, epoch),
           cursor = NoCursor \/ (epoch = cursor.epoch /\ offset >= cursor.next),
           offset <= arrived + 1,
           \A u \in updates : u < offset,
           \A u \in 1..arrived : u < offset =>
              u < cursor.next \/ u \in updates \/ u \in lapsed \/ Admitted(u),
           UNCHANGED <<arrived, kept, lapsed>>
    PROVE  /\ Below' /\ Filled' /\ NothingLost'
           /\ cursor' # NoCursor /\ cursor'.next = offset /\ cursor'.epoch = epoch
           /\ \A u \in 1..arrived : Admitted(u) => Admitted(u)'
  <1>1. cursor' = [next |-> offset, epoch |-> epoch]
    BY DEF Accept
  <1>2. cursor' # NoCursor /\ cursor'.next = offset /\ cursor'.epoch = epoch
    BY <1>1, EpochAssumption DEF NoCursor
  <1>3. ASSUME NEW u \in Update, NEW e \in Epoch
        PROVE  /\ inbox[u][e] # "none" => inbox'[u][e] # "none"
               /\ inbox'[u][e] # "none" => inbox[u][e] # "none" \/ (u \in updates /\ e = epoch)
               /\ u \in updates /\ e = epoch => inbox'[u][e] # "none"
    <2>1. inbox[u] \in [Epoch -> InboxState]
      BY Typing
    <2>2. CASE u \in New(updates, epoch)
      <3>1. inbox'[u] = [inbox[u] EXCEPT ![epoch] = Entry(u)]
        BY <2>2 DEF Accept
      <3>2. Entry(u) # "none" /\ u \in updates /\ inbox[u][epoch] = "none"
        BY <2>2 DEF Entry, New
      <3> QED
        BY <2>1, <3>1, <3>2
    <2>3. CASE u \notin New(updates, epoch)
      <3>1. inbox'[u] = inbox[u]
        BY <2>3 DEF Accept
      <3> QED
        BY <2>3, <3>1 DEF New
    <2> QED
      BY <2>2, <2>3
  <1>4. \A u \in 1..arrived : Admitted(u) => Admitted(u)'
    BY <1>3, Typing DEF Admitted
  <1>5. \A u \in updates : Admitted(u)'
    BY <1>3, Typing DEF Admitted
  <1>6. Below'
    <2>1. ASSUME NEW u \in Update, NEW e \in Epoch, inbox'[u][e] # "none"
          PROVE  e = epoch /\ u < offset
      <3>1. CASE inbox[u][e] # "none"
        <4>1. e = cursor.epoch /\ u < cursor.next
          BY <3>1 DEF PInv, Below
        <4>2. cursor # NoCursor
          BY <4>1, EpochAssumption DEF NoCursor
        <4> QED
          BY <4>1, <4>2, Typing DEF Update
      <3> QED
        BY <2>1, <1>3, <3>1
    <2> QED
      BY <2>1, <1>2 DEF Below
  <1>7. Filled'
    BY <1>2, <1>4, <1>5 DEF PInv, Filled
  <1>8. NothingLost'
    BY <1>4 DEF PInv, NothingLost
  <1> QED
    BY <1>2, <1>4, <1>6, <1>7, <1>8

(* Commit, when it takes the batch.                                        *)
LEMMA CommitTakes ==
    ASSUME PInv, NEW p \in Process, pc[p] = "commit",
           ~Conflicts(next[p], own[p].epoch),
           Accept(batch[p], next[p], own[p].epoch),
           own' = [own EXCEPT ![p].next = next[p]],
           batch' = [batch EXCEPT ![p] = {}],
           next' = [next EXCEPT ![p] = 0],
           pc' = [pc EXCEPT ![p] = "poll"],
           UNCHANGED <<arrived, kept, lapsed>>
    PROVE  Follows' /\ Covers' /\ Below' /\ Filled' /\ NothingLost'
  <1>1. /\ cursor # NoCursor /\ own[p].epoch = cursor.epoch
        /\ own[p].next <= cursor.next
    BY DEF PInv, Follows
  <1>2. next[p] >= cursor.next /\ own[p].epoch \in Epoch
    BY <1>1, Typing DEF Conflicts, Cursor
  <1>3. /\ next[p] <= arrived + 1
        /\ \A u \in batch[p] : u < next[p]
        /\ \A u \in 1..arrived : u < next[p] =>
              u < cursor.next \/ u \in batch[p] \/ u \in lapsed \/ Admitted(u)
    BY <1>1, Typing DEF PInv, Covers
  <1>4. /\ Below' /\ Filled' /\ NothingLost'
        /\ cursor' # NoCursor /\ cursor'.next = next[p] /\ cursor'.epoch = cursor.epoch
        /\ \A u \in 1..arrived : Admitted(u) => Admitted(u)'
    BY <1>1, <1>2, <1>3, Typing, AcceptSafely
  <1>5. \A q \in Process \ {p} : /\ pc'[q] = pc[q] /\ own'[q] = own[q]
                                 /\ batch'[q] = batch[q] /\ next'[q] = next[q]
    BY DEF PInv, Types, TypeOK
  <1>6. pc'[p] = "poll" /\ own'[p].next = next[p] /\ own'[p].epoch = own[p].epoch
    BY DEF PInv, Types, TypeOK, Started, Cursor
  <1>7. Follows'
    BY <1>1, <1>2, <1>4, <1>5, <1>6, Typing DEF PInv, Follows
  <1>8. Covers'
    BY <1>4, <1>5, <1>6 DEF PInv, Covers
  <1> QED
    BY <1>4, <1>7, <1>8

(* FoundStream, when it makes the epoch durable.                           *)
LEMMA FoundTakes ==
    ASSUME PInv, NEW p \in Process, pc[p] = "found",
           ~Conflicts(0, own[p].epoch),
           Accept({}, 0, own[p].epoch), Goes(p, "init"),
           UNCHANGED <<own, arrived, kept, lapsed>>
    PROVE  Follows' /\ Covers' /\ Below' /\ Filled' /\ NothingLost'
  <1>1. own[p] \in Cursor /\ own[p].next = 0 /\ own[p].epoch \in Epoch
    BY DEF PInv, Types, Started, Follows, Cursor
  <1>2. cursor = NoCursor \/ (own[p].epoch = cursor.epoch /\ 0 >= cursor.next)
    BY Typing DEF Conflicts
  <1>3. \A u \in 1..arrived : ~(u < 0)
    OBVIOUS
  <1>4. 0 <= arrived + 1 /\ {} \in SUBSET (1..arrived)
    BY Typing
  <1>5. /\ Below' /\ Filled' /\ NothingLost'
        /\ cursor' # NoCursor /\ cursor'.next = 0 /\ cursor'.epoch = own[p].epoch
        /\ \A u \in 1..arrived : Admitted(u) => Admitted(u)'
    BY <1>1, <1>2, <1>3, <1>4, AcceptSafely
  <1>6. \A q \in Process \ {p} : pc'[q] = pc[q]
    BY DEF Goes, PInv, Types, TypeOK
  <1>7. pc'[p] = "init"
    BY DEF Goes, PInv, Types, TypeOK
  <1>8. Follows'
    BY <1>1, <1>2, <1>5, <1>6, <1>7, Typing DEF PInv, Follows
  <1>9. Covers'
    BY <1>5, <1>6, <1>7 DEF PInv, Covers, Goes
  <1> QED
    BY <1>5, <1>8, <1>9

(* Poll: what it returns is all that is left below its offset.             *)
LEMMA PollCovers ==
    ASSUME PInv, NEW p \in Process, Poll(p)
    PROVE  Follows' /\ Covers'
  <1>1. PICK last \in kept :
          /\ last >= own[p].next
          /\ batch' = [batch EXCEPT ![p] =
                         {u \in kept : u >= own[p].next /\ u <= last}]
          /\ next' = [next EXCEPT ![p] = NextOffset(last)]
    BY DEF Poll
  <1>2. /\ UNCHANGED <<arrived, lapsed, cursor, inbox, own>>
        /\ pc[p] = "poll" /\ pc' = [pc EXCEPT ![p] = "commit"]
    BY DEF Poll, table
  <1>3. \A u \in 1..arrived : Admitted(u)' <=> Admitted(u)
    BY <1>2, Typing, SameRows
  <1>4. \A q \in Process \ {p} : /\ pc'[q] = pc[q] /\ own'[q] = own[q]
                                 /\ batch'[q] = batch[q] /\ next'[q] = next[q]
    BY <1>1, <1>2 DEF PInv, Types, TypeOK
  <1>5. /\ pc'[p] = "commit" /\ next'[p] = last + 1
        /\ batch'[p] = {u \in kept : u >= own[p].next /\ u <= last}
    BY <1>1, <1>2 DEF PInv, Types, TypeOK, NextOffset
  <1>6. last \in 1..arrived
    BY Typing
  <1>7. /\ next'[p] <= arrived + 1
        /\ \A u \in batch'[p] : u < next'[p]
        /\ \A u \in 1..arrived : u >= own[p].next /\ u < next'[p] =>
              u \in batch'[p] \/ u \in lapsed \/ Admitted(u)
    <2>1. last \in Nat /\ last <= arrived /\ arrived \in Nat
      BY <1>6, Typing
    <2>2. next'[p] <= arrived + 1
      BY <1>5, <2>1
    <2>3. ASSUME NEW u \in batch'[p] PROVE u < next'[p]
      <3>1. u \in 1..arrived /\ u <= last
        BY <1>5, Typing
      <3> QED
        BY <1>5, <2>1, <3>1
    <2>4. ASSUME NEW u \in 1..arrived, u >= own[p].next, u < next'[p]
          PROVE  u \in batch'[p] \/ u \in lapsed \/ Admitted(u)
      <3>1. u <= last
        BY <1>5, <2>1, <2>4
      <3> QED
        BY <1>5, <2>4, <3>1 DEF PInv, NothingLost
    <2> QED
      BY <2>2, <2>3, <2>4
  <1>8. Covers'
    BY <1>2, <1>3, <1>4, <1>7 DEF PInv, Covers
  <1>9. Follows'
    BY <1>2, <1>4, <1>5 DEF PInv, Follows
  <1> QED
    BY <1>8, <1>9

LEMMA NextPInv == PInv /\ [Next]_vars => PInv'
  <1> SUFFICES ASSUME PInv, [Next]_vars PROVE PInv'
    OBVIOUS
  <1> DEFINE Rest == Follows /\ Covers /\ Below /\ Filled /\ NothingLost
  <1>0. Types'
    BY NextTypes DEF PInv
  <1> SUFFICES Rest'
    BY <1>0 DEF PInv
  <1>1. ASSUME NEW p \in Process, Boot(p) PROVE Rest'
    <2>1. UNCHANGED <<arrived, kept, lapsed, cursor, inbox>>
      BY <1>1 DEF Boot, telegram, table
    <2>2. pc'[p] = "start" /\ \A q \in Process \ {p} : pc'[q] = pc[q]
      BY <1>1 DEF Boot, PInv, Types, TypeOK
    <2>3. Follows' /\ Covers'
      BY <1>1, <2>1, <2>2, PollerMoves DEF Boot
    <2> QED
      BY <2>1, <2>3, TableKept
  <1>2. ASSUME NEW p \in Process, ReadCursor(p) \/ Initialize(p) PROVE Rest'
    <2>1. UNCHANGED <<arrived, kept, lapsed, cursor, inbox, batch, next>>
      BY <1>2 DEF ReadCursor, Initialize, Goes, telegram, table
    <2>2. \A q \in Process \ {p} : pc'[q] = pc[q] /\ own'[q] = own[q]
      BY <1>2 DEF ReadCursor, Initialize, Goes, PInv, Types, TypeOK
    <2>3. /\ pc'[p] \in {"init", "poll"} /\ cursor # NoCursor
          /\ own'[p].epoch = cursor.epoch /\ own'[p].next <= cursor.next
      BY <1>2, Typing DEF ReadCursor, Initialize, Goes, PInv, Types, TypeOK, Follows
    <2>4. Follows' /\ Covers'
      BY <2>1, <2>2, <2>3, PollerMoves
    <2> QED
      BY <2>1, <2>4, TableKept
  <1>3. ASSUME NEW p \in Process, DrawEpoch(p) PROVE Rest'
    <2>1. UNCHANGED <<arrived, kept, lapsed, cursor, inbox, batch, next>>
      BY <1>3 DEF DrawEpoch, Goes, telegram
    <2>2. \A q \in Process \ {p} : pc'[q] = pc[q] /\ own'[q] = own[q]
      BY <1>3 DEF DrawEpoch, Goes, PInv, Types, TypeOK
    <2>3. pc'[p] = "found" /\ own'[p].next = 0
      BY <1>3 DEF DrawEpoch, Goes, PInv, Types, TypeOK
    <2>4. Follows' /\ Covers'
      BY <2>1, <2>2, <2>3, PollerMoves
    <2> QED
      BY <2>1, <2>4, TableKept
  <1>4. ASSUME NEW p \in Process, NEW why, Ends(p, why),
               UNCHANGED <<arrived, kept, lapsed, cursor, inbox>>
        PROVE  Rest'
    BY <1>4, EndsMoves, TableKept
  <1>5. ASSUME NEW p \in Process, FoundStream(p) PROVE Rest'
    BY <1>4, <1>5, FoundTakes DEF FoundStream, telegram
  <1>6. ASSUME NEW p \in Process, Commit(p) PROVE Rest'
    BY <1>4, <1>6, CommitTakes DEF Commit, telegram
  <1>7. ASSUME NEW p \in Process,
               Crash(p) \/ InitializeFails(p) \/ StoreFails(p) \/ RequireReview(p)
        PROVE  Rest'
    BY <1>4, <1>7 DEF Crash, InitializeFails, StoreFails, RequireReview, telegram, table
  <1>8. ASSUME NEW p \in Process, Poll(p) PROVE Rest'
    <2>1. /\ UNCHANGED <<arrived, lapsed, cursor, inbox>>
          /\ pc[p] = "poll" /\ Forgets(p)
      BY <1>8 DEF Poll, table
    <2> QED
      BY <1>8, <2>1, PollCovers, TableKept, ForgetsSafely
  <1>9. ASSUME NEW p \in Process, PollNothing(p) PROVE Rest'
    <2>1. /\ UNCHANGED <<arrived, lapsed, cursor, inbox, pc, own, batch, next>>
          /\ pc[p] = "poll" /\ Forgets(p)
      BY <1>9 DEF PollNothing, table
    <2>2. Follows' /\ Covers'
      BY <2>1, PollerMoves DEF PInv, Follows
    <2> QED
      BY <2>1, <2>2, TableKept, ForgetsSafely
  <1>10. ASSUME NEW p \in Process, PollFails(p) PROVE Rest'
    <2>1. /\ UNCHANGED <<arrived, lapsed, cursor, inbox>>
          /\ pc[p] = "poll" /\ (Forgets(p) \/ UNCHANGED kept)
      BY <1>10 DEF PollFails, table
    <2>2. Below' /\ Filled' /\ NothingLost'
      BY <2>1, TableKept, ForgetsSafely
    <2>3. CASE UNCHANGED poller
      <3>1. UNCHANGED <<pc, own, batch, next>>
        BY <2>3 DEF poller
      <3> QED
        BY <2>1, <2>2, <3>1, PollerMoves DEF PInv, Follows
    <2>4. ASSUME NEW why, Ends(p, why) PROVE Rest'
      BY <2>1, <2>2, <2>4, EndsMoves
    <2> QED
      BY <1>10, <2>3, <2>4 DEF PollFails
  <1>11. CASE Arrive
    <2>1. /\ arrived' = arrived + 1 /\ kept' = kept \cup {arrived'}
          /\ UNCHANGED <<lapsed, cursor, inbox, pc, own, batch, next>>
      BY <1>11 DEF Arrive, table, poller
    <2>2. \A u \in 1..arrived : Admitted(u)' <=> Admitted(u)
      BY <2>1, Typing, SameRows
    <2>3. \A u \in 1..arrived' : u \in 1..arrived \/ u = arrived + 1
      BY <2>1, Typing
    <2>4. Follows'
      BY <2>1 DEF PInv, Follows
    <2>5. Covers'
      <3>1. ASSUME NEW q \in Process, pc'[q] = "commit"
            PROVE  /\ next'[q] <= arrived' + 1
                   /\ \A u \in batch'[q] : u < next'[q]
                   /\ \A u \in 1..arrived' : u >= own'[q].next /\ u < next'[q] =>
                         u \in batch'[q] \/ u \in lapsed' \/ Admitted(u)'
        <4>1. /\ next[q] <= arrived + 1
              /\ \A u \in batch[q] : u < next[q]
              /\ \A u \in 1..arrived : u >= own[q].next /\ u < next[q] =>
                    u \in batch[q] \/ u \in lapsed \/ Admitted(u)
          BY <2>1, <3>1 DEF PInv, Covers
        <4> QED
          BY <4>1, <2>1, <2>2, <2>3, Typing
      <3> QED
        BY <3>1 DEF Covers
    <2>6. Below'
      BY <2>1, Typing DEF PInv, Below
    <2>7. Filled'
      BY <2>1, <2>2, <2>3, Typing DEF PInv, Filled, Below
    <2>8. NothingLost'
      BY <2>1, <2>2, <2>3 DEF PInv, NothingLost
    <2> QED
      BY <2>4, <2>5, <2>6, <2>7, <2>8
  <1>12. CASE Lapse
    <2>1. PICK u \in kept : kept' = kept \ {u} /\ lapsed' = lapsed \cup {u}
      BY <1>12 DEF Lapse
    <2>2. UNCHANGED <<arrived, cursor, inbox, pc, own, batch, next>>
      BY <1>12 DEF Lapse, table, poller
    <2>3. \A v \in 1..arrived : Admitted(v)' <=> Admitted(v)
      BY <2>2, Typing, SameRows
    <2>4. Follows' /\ Below'
      BY <2>2 DEF PInv, Follows, Below
    <2>5. Covers'
      BY <2>1, <2>2, <2>3 DEF PInv, Covers
    <2>6. Filled' /\ NothingLost'
      BY <2>1, <2>2, <2>3 DEF PInv, Filled, NothingLost
    <2> QED
      BY <2>4, <2>5, <2>6
  <1>13. CASE Week
    <2>1. UNCHANGED <<arrived, kept, lapsed, cursor, inbox, pc, own, batch, next>>
      BY <1>13 DEF Week, table
    <2>2. \A v \in 1..arrived : Admitted(v)' <=> Admitted(v)
      BY <2>1, Typing, SameRows
    <2>3. Follows' /\ Covers'
      BY <2>1, <2>2 DEF PInv, Follows, Covers
    <2> QED
      BY <2>1, <2>3, TableKept
  <1>14. ASSUME NEW p \in Process, Settle(p) PROVE Rest'
    <2>1. UNCHANGED <<arrived, kept, lapsed, cursor, pc, own, batch, next>>
      BY <1>14 DEF Settle, telegram, poller
    <2>2. \A v \in Update, e \in Epoch : inbox'[v][e] # "none" <=> inbox[v][e] # "none"
      <3>1. PICK u \in Update, e \in Epoch, s \in {"done", "quarantined"} :
              inbox[u][e] = "pending" /\ inbox' = [inbox EXCEPT ![u][e] = s]
        BY <1>14 DEF Settle
      <3> QED
        BY <3>1, Typing
    <2>3. \A v \in 1..arrived : Admitted(v)' <=> Admitted(v)
      BY <2>2, Typing DEF Admitted
    <2>4. Follows' /\ Covers'
      BY <2>1, <2>3 DEF PInv, Follows, Covers
    <2>5. Below' /\ Filled' /\ NothingLost'
      BY <2>1, <2>2, <2>3 DEF PInv, Below, Filled, NothingLost
    <2> QED
      BY <2>4, <2>5
  <1>15. CASE UNCHANGED vars
    <2>1. UNCHANGED <<arrived, kept, lapsed, cursor, inbox, pc, own, batch, next>>
      BY <1>15 DEF vars, telegram, table, poller
    <2>2. \A v \in 1..arrived : Admitted(v)' <=> Admitted(v)
      BY <2>1, Typing, SameRows
    <2>3. Follows' /\ Covers'
      BY <2>1, <2>2 DEF PInv, Follows, Covers
    <2> QED
      BY <2>1, <2>3, TableKept
  <1> QED
    BY <1>1, <1>2, <1>3, <1>5, <1>6, <1>7, <1>8, <1>9, <1>10, <1>11, <1>12,
       <1>13, <1>14, <1>15 DEF Next, Polls, Fails

(* The invariant holds in every reachable state.                           *)
THEOREM PollingInvariance == Spec => []PInv
  <1>1. Init => PInv
    BY InitPInv
  <1>2. PInv /\ [Next]_vars => PInv'
    BY NextPInv
  <1> QED
    BY <1>1, <1>2, PTL DEF Spec

------------------------------------------------------------------------------
(* What follows.                                                           *)

(* The state of the poller and of the inbox is well typed.                 *)
THEOREM PollingTypeCorrect == Spec => []TypeOK
  <1>1. PInv => TypeOK
    BY DEF PInv, Types
  <1> QED
    BY <1>1, PollingInvariance, PTL

(* No update is lost between Telegram and the inbox, whatever crashes,     *)
(* however many processes poll, and whatever the limits.                   *)
THEOREM NoUpdateLost == Spec => []NothingLost
  <1>1. PInv => NothingLost
    BY DEF PInv
  <1> QED
    BY <1>1, PollingInvariance, PTL

(* The cursor and the inbox tell the same.                                 *)
THEOREM CursorAndInboxAgree == Spec => []CursorMatchesInbox
  <1>1. PInv => CursorMatchesInbox
    <2> SUFFICES ASSUME PInv, NEW u \in 1..arrived
                 PROVE  /\ u < cursor.next => u \in lapsed \/ Admitted(u)
                        /\ Admitted(u) => u < cursor.next
      BY DEF CursorMatchesInbox
    <2>1. u \in Update
      BY Typing
    <2> QED
      BY <2>1 DEF PInv, Filled, Below, Admitted
  <1> QED
    BY <1>1, PollingInvariance, PTL

(* No update is admitted under two epochs.                                 *)
THEOREM NoUpdateTwice == Spec => []AdmittedOnce
  <1>1. PInv => AdmittedOnce
    BY DEF PInv, Below, AdmittedOnce
  <1> QED
    BY <1>1, PollingInvariance, PTL

(* The durable cursor never goes back, and its epoch stays.                *)
THEOREM CursorNeverBack == Spec => CursorOnlyAdvances
  <1>1. PInv /\ [Next]_vars =>
          [cursor # NoCursor => /\ cursor'.epoch = cursor.epoch
                                /\ cursor'.next >= cursor.next]_vars
    <2> SUFFICES ASSUME PInv, Next, cursor # NoCursor
                 PROVE  cursor'.epoch = cursor.epoch /\ cursor'.next >= cursor.next
      OBVIOUS
    <2>1. CASE UNCHANGED cursor
      BY <2>1, Typing
    <2>2. ASSUME NEW updates, NEW offset \in Nat, NEW epoch \in Epoch,
                 ~Conflicts(offset, epoch), Accept(updates, offset, epoch)
          PROVE  cursor'.epoch = cursor.epoch /\ cursor'.next >= cursor.next
      BY <2>2, Typing DEF Conflicts, Accept
    <2>3. ASSUME NEW p \in Process, FoundStream(p)
          PROVE  cursor'.epoch = cursor.epoch /\ cursor'.next >= cursor.next
      <3>1. own[p].epoch \in Epoch
        BY <2>3 DEF FoundStream, PInv, Types, Started, Cursor
      <3> QED
        BY <2>1, <2>2, <2>3, <3>1 DEF FoundStream
    <2>4. ASSUME NEW p \in Process, Commit(p)
          PROVE  cursor'.epoch = cursor.epoch /\ cursor'.next >= cursor.next
      <3>1. own[p].epoch \in Epoch /\ next[p] \in Nat
        BY <2>4, Typing DEF Commit, PInv, Types, Started, Cursor
      <3> QED
        BY <2>1, <2>2, <2>4, <3>1 DEF Commit
    <2>5. ASSUME NEW p \in Process,
                 \/ Boot(p) \/ ReadCursor(p) \/ DrawEpoch(p) \/ Initialize(p)
                 \/ Poll(p) \/ PollNothing(p) \/ RequireReview(p) \/ Fails(p) \/ Settle(p)
          PROVE  UNCHANGED cursor
      BY <2>5 DEF Boot, ReadCursor, DrawEpoch, Initialize, Poll, PollNothing,
                  RequireReview, Fails, Crash, InitializeFails, PollFails, StoreFails,
                  Settle, table
    <2>6. CASE Arrive \/ Lapse \/ Week
      BY <2>1, <2>6 DEF Arrive, Lapse, Week, table
    <2> QED
      BY <2>1, <2>3, <2>4, <2>5, <2>6 DEF Next, Polls
  <1> QED
    BY <1>1, PollingInvariance, PTL DEF Spec, CursorOnlyAdvances
==============================================================================
