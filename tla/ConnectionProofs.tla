--------------------------- MODULE ConnectionProofs ---------------------------
(***************************************************************************)
(* Proofs about Connection: types, the wake-ups of Run, its budget of      *)
(* dials, and the acknowledgement of messages.                             *)
(***************************************************************************)
EXTENDS Connection, TLAPS

Running == {"loop", "look", "backoff", "dial", "settle", "wait", "recheck"}

(* TypeOK in two parts: the flags, and the rest.                           *)
Flags ==
    /\ paired \in BOOLEAN /\ stopped \in BOOLEAN
    /\ registered \in BOOLEAN /\ signal \in BOOLEAN
    /\ terminal \in BOOLEAN /\ notifying \in BOOLEAN
    /\ acked \in BOOLEAN /\ offered \in BOOLEAN

Ranges ==
    /\ socket \in Socket
    /\ events \subseteq Event
    /\ pc \in Place
    /\ attempts \in 0..MaxConnectAttempts
    /\ result \in Result
    /\ at \in 0..Parts
    /\ admitted \subseteq 1..Parts
    /\ unseen \in Nat /\ late \in Nat
    /\ faults \in 0..MaxFaults

(* While Run is at work its handler is registered, and nobody else makes a *)
(* connection that can log in.                                             *)
Attended ==
    /\ pc \in Running \cup {"disconnect"} => registered
    /\ IsConnected => registered \/ socket = "pairing"
    /\ pc \in {"backoff", "dial", "unregister"} => socket \in {"down", "pairing"}

(* Run waits for a lost socket only with news on its way.                  *)
HearsLoss ==
    pc \in {"settle", "wait"} /\ ~stopped /\ ~IsConnected => OnItsWay

(* Past the check of Client.terminal, a block is on its way.               *)
HearsEnd ==
    pc \in {"look", "backoff", "dial", "settle", "wait"} /\ ~stopped /\ ~Usable =>
        signal \/ notifying \/ "terminal" \in events

(* Every dial since the last login is counted.                             *)
Counted ==
    /\ unseen <= attempts
    /\ IsLoggedIn => unseen = 0
    /\ pc = "backoff" => attempts < MaxConnectAttempts

(* A dial after the block is the last.                                     *)
Stopping ==
    /\ late <= 1
    /\ ~terminal => late = 0
    /\ pc \in {"look", "backoff"} => late = 0

(* The sink gets the events in order, and success means all of them.       *)
InTurn ==
    /\ \A i \in 1..Parts : i < at => i \in admitted
    /\ AckedIsAdmitted

CInv == Flags /\ Ranges /\ Attended /\ HearsLoss /\ HearsEnd /\ Counted /\ Stopping /\ InTurn

USE ConnectionAssumption

------------------------------------------------------------------------------
(* Each kind of step keeps the invariant.                                  *)

LEMMA InitInvariant == Init => CInv
  <1> SUFFICES ASSUME Init PROVE CInv
    OBVIOUS
  <1>1. Ranges
    BY DEF Init, Ranges, Socket, Event, Place, Result
  <1>1a. Flags
    BY DEF Init, Flags
  <1>2. Attended /\ HearsLoss /\ HearsEnd
    BY DEF Init, Attended, Running, IsConnected, HearsLoss, HearsEnd
  <1>3. Counted /\ Stopping
    BY DEF Init, Counted, IsLoggedIn, Stopping
  <1>4. InTurn
    BY DEF Init, InTurn, AckedIsAdmitted
  <1> QED
    BY <1>1, <1>1a, <1>2, <1>3, <1>4 DEF CInv

(* What a step leaves alone keeps the part of the invariant about it.      *)
LEMMA MessageUntouched ==
    ASSUME InTurn, UNCHANGED message PROVE InTurn'
  BY DEF InTurn, AckedIsAdmitted, message

LEMMA StartInvariant ==
    ASSUME CInv, New \/ IsPaired \/ RunStarts PROVE CInv'
  <1> USE DEF CInv, New, IsPaired, RunStarts, Goto, library, news, counters
  <1>1. Flags'
    BY DEF Flags, message
  <1>1a. Ranges'
    BY DEF Ranges, Socket, Event, Place, Result, message
  <1>2. Attended' /\ HearsLoss' /\ HearsEnd'
    BY DEF Attended, Running, IsConnected, HearsLoss, HearsEnd, Usable
  <1>3. Counted' /\ Stopping'
    BY DEF Counted, IsLoggedIn, Stopping
  <1> QED
    BY <1>1, <1>1a, <1>2, <1>3, MessageUntouched

LEMMA LoopInvariant ==
    ASSUME CInv, CheckTerminal \/ Recheck \/ LookAtSocket PROVE CInv'
  <1> USE DEF CInv, CheckTerminal, Recheck, LookAtSocket, BeginDial, Return, Goto,
              library, news, counters, Exhausted, ResetsAttempts
  <1>1. Flags'
    BY DEF Flags, message
  <1>1a. Ranges'
    <2>1. CASE CheckTerminal
      BY <2>1 DEF Ranges, Socket, Event, Place, Result, message, Counted
    <2>2. CASE Recheck
      BY <2>2 DEF Ranges, Socket, Event, Place, Result, message, Counted
    <2>3. CASE LookAtSocket
      BY <2>3 DEF Ranges, Socket, Event, Place, Result, message, Counted
    <2> QED
      BY <2>1, <2>2, <2>3
  <1>2. Attended' /\ HearsLoss' /\ HearsEnd'
    BY DEF Attended, Running, IsConnected, HearsLoss, HearsEnd, OnItsWay, Usable
  <1>3. Counted' /\ Stopping'
    BY DEF Counted, IsConnected, IsLoggedIn, Stopping, Usable, Ranges
  <1> QED
    BY <1>1, <1>1a, <1>2, <1>3, MessageUntouched

LEMMA BackoffInvariant ==
    ASSUME CInv, BackoffCanceled \/ BackoffSignalled \/ BackoffOver PROVE CInv'
  <1> USE DEF CInv, BackoffCanceled, BackoffSignalled, BackoffOver, BeginDial, Return, Goto,
              library, news, counters
  <1>1. Flags'
    BY DEF Flags, message
  <1>1a. Ranges'
    <2>1. CASE BackoffCanceled
      BY <2>1 DEF Ranges, Socket, Event, Place, Result, message, Counted
    <2>2. CASE BackoffSignalled
      BY <2>2 DEF Ranges, Socket, Event, Place, Result, message, Counted
    <2>3. CASE BackoffOver
      BY <2>3 DEF Ranges, Socket, Event, Place, Result, message, Counted
    <2> QED
      BY <2>1, <2>2, <2>3
  <1>2. Attended' /\ HearsLoss' /\ HearsEnd'
    BY DEF Attended, Running, IsConnected, HearsLoss, HearsEnd, OnItsWay, Usable
  <1>3. Counted' /\ Stopping'
    BY DEF Counted, Attended, IsLoggedIn, Stopping, Ranges
  <1> QED
    BY <1>1, <1>1a, <1>2, <1>3, MessageUntouched

LEMMA DialInvariant ==
    ASSUME CInv, Dialled \/ DialFails PROVE CInv'
  <1> USE DEF CInv, Dialled, DialFails, Goto, Fault, library, news, counters
  <1>1. Flags'
    BY DEF Flags, message
  <1>1a. Ranges'
    <2>1. CASE Dialled
      BY <2>1 DEF Ranges, Socket, Event, Place, Result, message, Counted
    <2>2. CASE DialFails
      BY <2>2 DEF Ranges, Socket, Event, Place, Result, message, Counted
    <2> QED
      BY <2>1, <2>2
  <1>2. Attended' /\ HearsLoss' /\ HearsEnd'
    BY DEF Attended, Running, IsConnected, HearsLoss, HearsEnd, OnItsWay, Usable
  <1>3. Counted' /\ Stopping'
    BY DEF Counted, IsConnected, IsLoggedIn, Stopping
  <1> QED
    BY <1>1, <1>1a, <1>2, <1>3, MessageUntouched

LEMMA WaitInvariant ==
    ASSUME CInv, Wait \/ WaitCanceled \/ WaitSignalled \/ Disconnect \/ Unregister PROVE CInv'
  <1> USE DEF CInv, Wait, WaitCanceled, WaitSignalled, Disconnect, Unregister, Return, Goto,
              library, news, counters
  <1>1. Flags'
    BY DEF Flags, message
  <1>1a. Ranges'
    <2>0. CASE Wait
      BY <2>0 DEF Ranges, Socket, Event, Place, Result, message, Counted
    <2>1. CASE WaitCanceled
      BY <2>1 DEF Ranges, Socket, Event, Place, Result, message, Counted
    <2>2. CASE WaitSignalled
      BY <2>2 DEF Ranges, Socket, Event, Place, Result, message, Counted
    <2>3. CASE Disconnect
      BY <2>3 DEF Ranges, Socket, Event, Place, Result, message, Counted
    <2>4. CASE Unregister
      BY <2>4 DEF Ranges, Socket, Event, Place, Result, message, Counted
    <2> QED
      BY <2>0, <2>1, <2>2, <2>3, <2>4
  <1>2. Attended' /\ HearsLoss' /\ HearsEnd'
    BY DEF Attended, Running, IsConnected, HearsLoss, HearsEnd, OnItsWay, Usable, Ranges, Socket
  <1>3. Counted' /\ Stopping'
    BY DEF Counted, IsLoggedIn, Stopping
  <1> QED
    BY <1>1, <1>1a, <1>2, <1>3, MessageUntouched

(* A handler that takes an event off the library's hands leaves the token, *)
(* or is about to.                                                         *)
LEMMA EventInvariant ==
    ASSUME CInv, NEW e \in Event, HandleEvent(e) PROVE CInv'
  <1> USE DEF CInv, HandleEvent, Ignored, runner, counters
  <1>0. UNCHANGED <<socket, paired, stopped, pc, attempts, result, registered, message, unseen, late, faults>>
    OBVIOUS
  <1>1. Flags'
    BY DEF Flags, Token, message
  <1>1a. Ranges'
    BY <1>0 DEF Ranges, message
  <1>2. Attended' /\ Counted' /\ Stopping'
    BY <1>0 DEF Attended, IsConnected, Counted, IsLoggedIn, Stopping
  <1>3. HearsLoss' /\ HearsEnd'
    BY DEF Attended, Running, IsConnected, HearsLoss, HearsEnd, OnItsWay, Usable, Event, Token
  <1> QED
    BY <1>0, <1>1, <1>1a, <1>2, <1>3, MessageUntouched

LEMMA NotifyInvariant ==
    ASSUME CInv, Notify PROVE CInv'
  <1> USE DEF CInv, Notify, Token, library, runner, counters
  <1>1. Flags'
    BY DEF Flags, message
  <1>1a. Ranges'
    BY DEF Ranges, message
  <1>2. Attended' /\ HearsLoss' /\ HearsEnd'
    BY DEF Attended, IsConnected, HearsLoss, HearsEnd, OnItsWay, Usable
  <1>3. Counted' /\ Stopping'
    BY DEF Counted, IsLoggedIn, Stopping
  <1> QED
    BY <1>1, <1>1a, <1>2, <1>3, MessageUntouched

LEMMA MessageInvariant ==
    ASSUME CInv, HandleMessage \/ Admit \/ AdmitFails PROVE CInv'
  <1> USE DEF CInv, HandleMessage, Admit, AdmitFails, Fault, Ignored, library, runner, news, counters
  <1>1. Flags'
    BY DEF Flags, message
  <1>1a. Ranges'
    <2>1. CASE HandleMessage
      BY <2>1 DEF Ranges
    <2>2. CASE Admit
      BY <2>2 DEF Ranges
    <2>3. CASE AdmitFails
      BY <2>3 DEF Ranges
    <2> QED
      BY <2>1, <2>2, <2>3
  <1>2. Attended' /\ HearsLoss' /\ HearsEnd'
    BY DEF Attended, Running, IsConnected, HearsLoss, HearsEnd, OnItsWay, Usable
  <1>3. Counted' /\ Stopping'
    BY DEF Counted, IsLoggedIn, Stopping
  <1>4. InTurn'
    <2>0. at \in 0..Parts /\ admitted \subseteq 1..Parts
      BY DEF Ranges
    <2>1. CASE HandleMessage
      <3>1. at' \in {0, 1} /\ UNCHANGED admitted
        BY <2>1
      <3>2. registered /\ ~acked'
        BY <2>1 DEF Attended, IsConnected
      <3> QED
        BY <3>1, <3>2 DEF InTurn, AckedIsAdmitted
    <2>2. CASE Admit
      <3>1. /\ at \in 1..Parts
            /\ admitted' = admitted \cup {at}
            /\ \A i \in 1..Parts : i < at => i \in admitted
        BY <2>0, <2>2 DEF InTurn
      <3>2. CASE at < Parts
        <4>1. at' = at + 1 /\ acked' = acked
          BY <2>2, <3>2
        <4>2. \A i \in 1..Parts : i < at' => i \in admitted'
          BY <3>1, <4>1
        <4>3. acked => admitted' = 1..Parts
          BY <3>1 DEF InTurn, AckedIsAdmitted
        <4> QED
          BY <4>1, <4>2, <4>3 DEF InTurn, AckedIsAdmitted
      <3>3. CASE ~(at < Parts)
        <4>1. at' = 0
          BY <2>2, <3>3
        <4>2. \A i \in 1..Parts : i \in admitted'
          BY <3>1, <3>3
        <4>3. admitted' = 1..Parts
          BY <2>0, <3>1, <4>2
        <4> QED
          BY <4>1, <4>2, <4>3 DEF InTurn, AckedIsAdmitted
      <3> QED
        BY <3>2, <3>3
    <2>3. CASE AdmitFails
      BY <2>3 DEF InTurn, AckedIsAdmitted
    <2> QED
      BY <2>1, <2>2, <2>3
  <1> QED
    BY <1>1, <1>1a, <1>2, <1>3, <1>4

LEMMA LibraryInvariant ==
    ASSUME CInv, Login \/ Drop \/ Block \/ PairingConnects \/ Pair \/ Stop PROVE CInv'
  <1> USE DEF CInv, Login, Drop, Block, PairingConnects, Pair, Stop, Fault,
              runner, news, counters, library
  <1>1. Flags'
    BY DEF Flags, message
  <1>1a. Ranges'
    <2>1. CASE Login
      BY <2>1 DEF Ranges, Socket, Event, Place, Result, message, Counted
    <2>2. CASE Drop
      BY <2>2 DEF Ranges, Socket, Event, Place, Result, message, Counted
    <2>3. CASE Block
      BY <2>3 DEF Ranges, Socket, Event, Place, Result, message, Counted
    <2>4. CASE PairingConnects
      BY <2>4 DEF Ranges, Socket, Event, Place, Result, message, Counted
    <2>5. CASE Pair
      BY <2>5 DEF Ranges, Socket, Event, Place, Result, message, Counted
    <2>6. CASE Stop
      BY <2>6 DEF Ranges, Socket, Event, Place, Result, message, Counted
    <2> QED
      BY <2>1, <2>2, <2>3, <2>4, <2>5, <2>6
  <1>2. Attended' /\ HearsLoss' /\ HearsEnd'
    BY DEF Attended, Running, IsConnected, HearsLoss, HearsEnd, OnItsWay, Usable
  <1>3. Counted' /\ Stopping'
    BY DEF Counted, IsLoggedIn, Stopping, Ranges
  <1>4. InTurn'
    BY DEF InTurn, AckedIsAdmitted, message
  <1> QED
    BY <1>1, <1>1a, <1>2, <1>3, <1>4

LEMMA NextInvariant == CInv /\ [Next]_vars => CInv'
  <1> SUFFICES ASSUME CInv, [Next]_vars PROVE CInv'
    OBVIOUS
  <1>1. CASE Runner
    BY <1>1, StartInvariant, LoopInvariant, BackoffInvariant, DialInvariant, WaitInvariant
       DEF Runner
  <1>2. CASE Handler
    BY <1>2, EventInvariant, NotifyInvariant, MessageInvariant DEF Handler
  <1>3. CASE Environment
    BY <1>3, DialInvariant, MessageInvariant, LibraryInvariant DEF Environment
  <1>4. CASE UNCHANGED vars
    <2>0. Flags'
      BY <1>4 DEF CInv, vars, library, news, message, Flags
    <2>1. Ranges' /\ Attended' /\ HearsLoss' /\ HearsEnd'
      BY <1>4 DEF CInv, vars, library, runner, news, message, counters, Ranges, Attended,
                  IsConnected, HearsLoss, HearsEnd, OnItsWay, Usable
    <2>2. Counted' /\ Stopping' /\ InTurn'
      BY <1>4 DEF CInv, vars, library, runner, news, message, counters, Counted, IsLoggedIn,
                  Stopping, InTurn, AckedIsAdmitted
    <2> QED
      BY <2>0, <2>1, <2>2 DEF CInv
  <1> QED
    BY <1>1, <1>2, <1>3, <1>4 DEF Next

LEMMA Invariant == Spec => []CInv
  BY InitInvariant, NextInvariant, PTL DEF Spec

------------------------------------------------------------------------------
(* The theorems.                                                           *)

(* Every variable keeps its type, and Run's counter its bound.             *)
THEOREM ConnectionTypeCorrect == Spec => []TypeOK
  <1>1. CInv => TypeOK
    BY DEF CInv, Flags, Ranges, TypeOK
  <1> QED
    BY <1>1, Invariant, PTL

(* Run never waits for news that is not coming.                            *)
THEOREM RunIsWoken == Spec => []NoLostWakeup
  <1>1. CInv => NoLostWakeup
    BY DEF CInv, HearsLoss, HearsEnd, NoLostWakeup, OnItsWay, Usable
  <1> QED
    BY <1>1, Invariant, PTL

(* Only a login renews the budget of dials.                                *)
THEOREM DialsWithinBudget == Spec => []DialsAreBounded
  <1>1. CInv => DialsAreBounded
    BY DEF CInv, Counted, Ranges, DialsAreBounded
  <1> QED
    BY <1>1, Invariant, PTL

(* A blocked account is dialled at most once more.                         *)
THEOREM BlockEndsDialling == Spec => []OneDialAfterTerminal
  <1>1. CInv => OneDialAfterTerminal
    BY DEF CInv, Stopping, OneDialAfterTerminal
  <1> QED
    BY <1>1, Invariant, PTL

(* What WhatsApp is told to forget is in the inbox.                        *)
THEOREM AcknowledgedIsAdmitted == Spec => []AckedIsAdmitted
  <1>1. CInv => AckedIsAdmitted
    BY DEF CInv, InTurn
  <1> QED
    BY <1>1, Invariant, PTL
==============================================================================
