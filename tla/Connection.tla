------------------------------ MODULE Connection ------------------------------
(***************************************************************************)
(* The connection to WhatsApp: Run and handle of                           *)
(* internal/whatsapp/connection.go, the loop of cmd/whatsgram/main.go that *)
(* waits for a paired device and then calls Run, and what pairing.go does  *)
(* to the socket.                                                          *)
(*                                                                         *)
(* The library tells of its socket by events, which it dispatches to       *)
(* handle on goroutines of its own after the socket has changed.  handle   *)
(* passes the news on through a channel of one token, so events melt into  *)
(* one another, and Run looks at the socket itself whenever it wakes up.   *)
(* The same handle admits messages: what it returns decides whether the    *)
(* library acknowledges the message to WhatsApp.                           *)
(*                                                                         *)
(* Abstractions.  The events that end the account's connection for good    *)
(* (logged out, stream replaced, ...) are one, "terminal", and those that  *)
(* say that a socket is gone are one, "lost".  The length of a backoff is  *)
(* left out.  There is one message, which handle turns into Parts events   *)
(* of the bridge (a history sync holds many).  One run of the process.     *)
(***************************************************************************)
EXTENDS Naturals

CONSTANTS
    MaxConnectAttempts,  \* cfg.Runtime.MaxAttempts, handed on by main
    Parts,               \* events of the bridge that the message becomes
    MaxFaults            \* bound: sockets lost, dials and admissions failed, ...

(* What the validation of the configuration accepts (validate.go:57).      *)
ASSUME ConnectionAssumption ==
    /\ MaxConnectAttempts \in 1..100
    /\ Parts \in Nat \ {0}
    /\ MaxFaults \in Nat

Socket == {"down", "pairing", "open", "in"}
Event  == {"up", "lost", "terminal"}
Result == {"none", "canceled", "permanent", "transient"}
Place  == {"new", "refused", "unpaired", "enter", "loop", "look", "backoff",
           "dial", "settle", "wait", "recheck", "disconnect", "unregister", "done"}

VARIABLES
    socket,      \* the library's socket: gone, unpaired, connected, logged in
    events,      \* events the library is dispatching
    paired,      \* the device has a JID and is not deleted
    stopped,     \* the context of main is canceled
    pc,          \* where main and Run are
    attempts,    \* Run's local counter
    registered,  \* Run's handler is registered with the library
    signal,      \* the token in the channel
    terminal,    \* Client.terminal is set
    notifying,   \* a handler has set terminal and not yet called notify
    result,      \* what Run returned
    acked,       \* WhatsApp has been told that the message is dealt with
    offered,     \* the message has been sent over the present login
    at,          \* the event that handle is admitting, 0 for none
    admitted,    \* the events of the message that are in the inbox
    unseen,      \* dials since the last login
    late,        \* dials since terminal was set
    faults       \* faults so far

library  == <<socket, events, paired>>
runner   == <<pc, attempts, result>>
news     == <<registered, signal, terminal, notifying>>
message  == <<acked, offered, at, admitted>>
counters == <<unseen, late>>
vars == <<library, stopped, runner, news, message, counters, faults>>

------------------------------------------------------------------------------
Init ==
    /\ socket = "down"
    /\ events = {}
    /\ paired \in BOOLEAN
    /\ stopped = FALSE
    /\ pc = "new"
    /\ attempts = 0
    /\ registered = FALSE
    /\ signal = FALSE
    /\ terminal = FALSE
    /\ notifying = FALSE
    /\ result = "none"
    /\ acked = FALSE
    /\ offered = FALSE
    /\ at = 0
    /\ admitted = {}
    /\ unseen = 0
    /\ late = 0
    /\ faults = 0

Fault == faults < MaxFaults /\ faults' = faults + 1

Goto(p) == pc' = p /\ UNCHANGED <<attempts, result>>

(* notify puts the token in unless it is there already: the channel holds  *)
(* one, so a token that nobody waits for stays.  The mutant has a channel  *)
(* that holds none.                                                        *)
TokenIfAwaited == pc \in {"backoff", "wait"}
Token == TRUE

(* What Run asks before it goes on.  The mutant forgets Client.terminal.   *)
StillPaired == paired
Usable == ~terminal /\ paired

(* The mutant counts one attempt too many.                                 *)
ExhaustedLate == attempts > MaxConnectAttempts
Exhausted == attempts >= MaxConnectAttempts

(* Run returns: its deferred function disconnects, then unregisters.       *)
Return(r) ==
    /\ pc' = "disconnect"
    /\ result' = r
    /\ UNCHANGED attempts

IsConnected == socket # "down"
IsLoggedIn  == socket = "in"

------------------------------------------------------------------------------
(* main, up to the call of Run.                                            *)

AcceptsOptions == MaxConnectAttempts \in 1..20

(* New refuses its options, or the runner of main starts.                  *)
New ==
    /\ pc = "new"
    /\ Goto(IF AcceptsOptions THEN "unpaired" ELSE "refused")
    /\ UNCHANGED <<library, stopped, news, message, counters, faults>>

(* main looks every three seconds whether somebody has paired a device.    *)
IsPaired ==
    /\ pc = "unpaired"
    /\ \/ stopped /\ Goto("done")
       \/ ~stopped /\ paired /\ Goto("enter")
    /\ UNCHANGED <<library, stopped, news, message, counters, faults>>

(* Run looks again under the lock, and registers its handler before it     *)
(* looks at the socket.  If it fails main stops the process.               *)
RunStarts ==
    /\ pc = "enter"
    /\ IF Usable
       THEN /\ Goto("loop")
            /\ registered' = TRUE
            /\ UNCHANGED stopped
       ELSE /\ pc' = "done"
            /\ result' = "permanent"
            /\ stopped' = TRUE
            /\ UNCHANGED <<attempts, registered>>
    /\ UNCHANGED <<library, signal, terminal, notifying, message, counters, faults>>

------------------------------------------------------------------------------
(* Run.                                                                    *)

CheckTerminal ==
    /\ pc = "loop"
    /\ IF stopped THEN Return("canceled")
       ELSE IF Usable THEN Goto("look")
       ELSE Return("permanent")
    /\ UNCHANGED <<library, stopped, news, message, counters, faults>>

(* Dialling begins: the counter goes up before the call.                   *)
BeginDial ==
    /\ pc' = "dial"
    /\ attempts' = attempts + 1
    /\ unseen' = unseen + 1
    /\ late' = IF terminal THEN late + 1 ELSE late
    /\ UNCHANGED result

LookAtSocket ==
    /\ pc = "look"
    /\ \/ IsConnected /\ Goto("settle") /\ UNCHANGED counters
       \/ /\ ~IsConnected
          /\ \/ Exhausted /\ Return("transient") /\ UNCHANGED counters
             \/ ~Exhausted /\ attempts > 0 /\ Goto("backoff") /\ UNCHANGED counters
             \/ ~Exhausted /\ attempts = 0 /\ BeginDial
    /\ UNCHANGED <<library, stopped, news, message, faults>>

(* The three cases of the select of the backoff.                           *)
BackoffCanceled ==
    /\ pc = "backoff"
    /\ stopped
    /\ Return("canceled")
    /\ UNCHANGED <<library, stopped, news, message, counters, faults>>

BackoffSignalled ==
    /\ pc = "backoff"
    /\ signal
    /\ signal' = FALSE
    /\ Goto("loop")
    /\ UNCHANGED <<library, stopped, registered, terminal, notifying, message, counters, faults>>

BackoffOver ==
    /\ pc = "backoff"
    /\ BeginDial
    /\ UNCHANGED <<library, stopped, news, message, faults>>

(* ConnectContext.  A socket that is already there is taken as a success.  *)
Dialled ==
    /\ pc = "dial"
    /\ Goto("settle")
    /\ socket' = IF IsConnected THEN socket ELSE "open"
    /\ UNCHANGED <<events, paired, stopped, news, message, counters, faults>>

DialFails ==
    /\ pc = "dial"
    /\ ~IsConnected
    /\ Goto("loop")
    /\ IF stopped THEN UNCHANGED faults ELSE Fault
    /\ UNCHANGED <<library, stopped, news, message, counters>>

(* The select at the end of the loop.  Between the look at the socket and  *)
(* the select the socket may go, and the event be handled.                 *)
Wait ==
    /\ pc = "settle"
    /\ Goto("wait")
    /\ UNCHANGED <<library, stopped, news, message, counters, faults>>

WaitCanceled ==
    /\ pc = "wait"
    /\ stopped
    /\ Return("canceled")
    /\ UNCHANGED <<library, stopped, news, message, counters, faults>>

WaitSignalled ==
    /\ pc = "wait"
    /\ signal
    /\ signal' = FALSE
    /\ Goto("recheck")
    /\ UNCHANGED <<library, stopped, registered, terminal, notifying, message, counters, faults>>

(* The mutant takes a connection for a login.                              *)
ResetsOnConnection == IsConnected
ResetsAttempts == IsConnected /\ IsLoggedIn

Recheck ==
    /\ pc = "recheck"
    /\ pc' = "loop"
    /\ attempts' = IF ResetsAttempts THEN 0 ELSE attempts
    /\ UNCHANGED <<library, stopped, result, news, message, counters, faults>>

(* The deferred function of Run, and main, which stops the process when    *)
(* Run failed.  The mutant only unregisters.                               *)
DisconnectForgotten ==
    /\ pc = "disconnect"
    /\ Goto("unregister")
    /\ UNCHANGED <<library, stopped, news, message, counters, faults>>

Disconnect ==
    /\ pc = "disconnect"
    /\ Goto("unregister")
    /\ socket' = "down"
    /\ UNCHANGED <<events, paired, stopped, news, message, counters, faults>>

Unregister ==
    /\ pc = "unregister"
    /\ Goto("done")
    /\ registered' = FALSE
    /\ stopped' = TRUE
    /\ UNCHANGED <<library, signal, terminal, notifying, message, counters, faults>>

------------------------------------------------------------------------------
(* handle: events of the connection.                                       *)

(* An event finds the handlers that are registered when it is dispatched.  *)
(* handle does nothing once the context is canceled.                       *)
Ignored == ~registered \/ stopped

HandleEvent(e) ==
    /\ e \in events
    /\ events' = events \ {e}
    /\ IF Ignored
       THEN UNCHANGED <<signal, terminal, notifying>>
       ELSE IF e = "terminal"
       THEN terminal' = TRUE /\ notifying' = TRUE /\ UNCHANGED signal
       ELSE signal' = (signal \/ Token) /\ UNCHANGED <<terminal, notifying>>
    /\ UNCHANGED <<socket, paired, stopped, runner, registered, message, counters, faults>>

(* The rest of a handler that has set terminal.  The mutant ends there.    *)
NotifyForgotten ==
    /\ notifying
    /\ notifying' = FALSE
    /\ UNCHANGED <<library, stopped, runner, registered, signal, terminal, message, counters, faults>>

Notify ==
    /\ notifying
    /\ notifying' = FALSE
    /\ signal' = (signal \/ Token)
    /\ UNCHANGED <<library, stopped, runner, registered, terminal, message, counters, faults>>

------------------------------------------------------------------------------
(* handle: the message.  The library hands it over once for each login     *)
(* until it is acknowledged, and handles one at a time.                    *)

(* handle fails at once when the context is canceled.  Without a handler   *)
(* nothing fails, and the library acknowledges.                            *)
HandleMessage ==
    /\ socket = "in"
    /\ ~acked /\ ~offered /\ at = 0
    /\ offered' = TRUE
    /\ acked' = ~registered
    /\ at' = IF Ignored THEN 0 ELSE 1
    /\ UNCHANGED <<library, stopped, runner, news, admitted, counters, faults>>

(* One call of the sink, store.Accept.  After the last one handle returns  *)
(* true, and the acknowledgement is sent if there is a socket to send it.  *)
Admit ==
    /\ at # 0
    /\ admitted' = admitted \cup {at}
    /\ IF at < Parts
       THEN at' = at + 1 /\ UNCHANGED acked
       ELSE at' = 0 /\ acked' = (socket = "in")
    /\ UNCHANGED <<library, stopped, runner, news, offered, counters, faults>>

(* The sink fails, for want of room, of the database or with a panic.      *)
(* Nothing tries again: the message waits for another login.               *)
AdmitFails ==
    /\ at # 0
    /\ at' = 0
    /\ IF stopped THEN UNCHANGED faults ELSE Fault
    /\ UNCHANGED <<library, stopped, runner, news, acked, offered, admitted, counters>>

------------------------------------------------------------------------------
(* The library, WhatsApp, the operator.                                    *)

Login ==
    /\ socket = "open"
    /\ socket' = "in"
    /\ events' = events \cup {"up"}
    /\ offered' = FALSE
    /\ unseen' = 0
    /\ UNCHANGED <<paired, stopped, runner, news, acked, at, admitted, late, faults>>

(* The socket is gone, and then the library says so.                       *)
Drop ==
    /\ IsConnected
    /\ Fault
    /\ socket' = "down"
    /\ events' = events \cup {"lost"}
    /\ UNCHANGED <<paired, stopped, runner, news, message, counters>>

(* WhatsApp ends the connection for good; a logout deletes the device.     *)
Block ==
    /\ socket \in {"open", "in"}
    /\ Fault
    /\ socket' = "down"
    /\ UNCHANGED paired \/ paired' = FALSE
    /\ events' = events \cup {"terminal"}
    /\ UNCHANGED <<stopped, runner, news, message, counters>>

(* BeginQR and BeginPhoneCode connect a device that is not paired.         *)
PairingConnects ==
    /\ pc \notin {"new", "refused"}
    /\ ~stopped /\ ~paired /\ ~IsConnected
    /\ socket' = "pairing"
    /\ UNCHANGED <<events, paired, stopped, runner, news, message, counters, faults>>

Pair ==
    /\ socket = "pairing" /\ ~paired
    /\ paired' = TRUE
    /\ UNCHANGED <<socket, events, stopped, runner, news, message, counters, faults>>

(* A signal to the process, or another runner of main that failed.         *)
Stop ==
    /\ pc \notin {"new", "refused"}
    /\ ~stopped
    /\ stopped' = TRUE
    /\ UNCHANGED <<library, runner, news, message, counters, faults>>

------------------------------------------------------------------------------
Runner ==
    \/ New \/ IsPaired \/ RunStarts \/ CheckTerminal \/ LookAtSocket
    \/ BackoffCanceled \/ BackoffSignalled \/ BackoffOver \/ Dialled
    \/ Wait \/ WaitCanceled \/ WaitSignalled \/ Recheck \/ Disconnect \/ Unregister

Handler ==
    \/ \E e \in Event : HandleEvent(e)
    \/ Notify
    \/ HandleMessage
    \/ Admit

Environment ==
    \/ DialFails \/ AdmitFails \/ Login \/ Drop \/ Block
    \/ PairingConnects \/ Pair \/ Stop

Next == Runner \/ Handler \/ Environment

Spec == Init /\ [][Next]_vars

(* Run goes on: its backoff and its dials end.  So do the goroutines that  *)
(* dispatch events.  Nothing is assumed of WhatsApp or of the operator.    *)
FairSpec ==
    /\ Spec
    /\ WF_vars(Runner)
    /\ \A e \in Event : WF_vars(HandleEvent(e))
    /\ WF_vars(Notify)
    /\ WF_vars(HandleMessage)
    /\ WF_vars(Admit)

------------------------------------------------------------------------------
(* Properties.                                                             *)

(* Every variable has its type, and no more than Run's counter allows.     *)
TypeOK ==
    /\ socket \in Socket
    /\ events \subseteq Event
    /\ paired \in BOOLEAN /\ stopped \in BOOLEAN
    /\ pc \in Place
    /\ attempts \in 0..MaxConnectAttempts
    /\ registered \in BOOLEAN /\ signal \in BOOLEAN
    /\ terminal \in BOOLEAN /\ notifying \in BOOLEAN
    /\ result \in Result
    /\ acked \in BOOLEAN /\ offered \in BOOLEAN
    /\ at \in 0..Parts
    /\ admitted \subseteq 1..Parts
    /\ unseen \in Nat /\ late \in Nat
    /\ faults \in 0..MaxFaults

OnItsWay == signal \/ notifying \/ events \cap {"lost", "terminal"} # {}

(* When Run waits for news while its socket is gone, or the account is     *)
(* blocked or the device deleted, the news is on its way: an event that is *)
(* being dispatched, a handler about to notify, or the token.  Run reads   *)
(* the socket and then waits, handlers come and go in between, and the     *)
(* channel drops a notification when it is full.                           *)
NoLostWakeup ==
    (pc = "wait" /\ ~stopped /\ (~IsConnected \/ terminal \/ ~paired)) => OnItsWay

(* Run dials WhatsApp at most MaxConnectAttempts times after the last      *)
(* login, however its sockets come and go: only a login renews the budget, *)
(* and a connection that never logs in does not.                           *)
DialsAreBounded == unseen <= MaxConnectAttempts

(* After the account is blocked at most one more dial begins: the one that *)
(* was past the check of Client.terminal.                                  *)
OneDialAfterTerminal == late <= 1

(* A message is acknowledged to WhatsApp only when all of its events are   *)
(* in the inbox: over failures half way through, a canceled context, a     *)
(* socket lost before the acknowledgement, and the end of Run.             *)
AckedIsAdmitted == acked => admitted = 1..Parts

(* Once the account is blocked, Run ends and the process stops: the token  *)
(* reaches Run wherever it is.                                             *)
TerminalEndsRun == terminal ~> (pc = "done" /\ stopped)

AtRest ==
    \/ pc = "done"
    \/ pc = "unpaired" /\ ~paired
    \/ pc = "wait" /\ IsConnected

(* Run never settles down without a socket: in the end it waits on a       *)
(* connection, nobody has paired a device, or Run is over.                 *)
Recovers == <>[]AtRest
==============================================================================
