------------------------------- MODULE Topics -------------------------------
(***************************************************************************)
(* Chats and their Telegram topics: the table bridge_chat, EnsureTopic     *)
(* with its walk from one call to the next, the commands /bind and /sync,  *)
(* and the card that stands first in a topic.                              *)
(*                                                                         *)
(* All callers within one process run in the goroutine of its inbox loop,  *)
(* so a process has one walk at a time; other processes may share the      *)
(* database.  Each read, each transaction of the store and each call to    *)
(* Telegram is a step.  Reads do not fail: SQLite readers in WAL mode do   *)
(* not wait for the writer.  A write may find the database busy, and a     *)
(* call to Telegram may fail, or succeed without an answer.                *)
(*                                                                         *)
(* A chat is discovered or active: nothing in the program calls            *)
(* SetChatState or CompleteTopicDelivery.  Titles, the contents of a card  *)
(* and the metadata of contacts and groups are left out.                   *)
(***************************************************************************)
EXTENDS Integers, Sequences, FiniteSets

CONSTANTS
    Process,      \* processes over one database
    Chat,         \* WhatsApp chats, by JID
    Nobody,       \* no chat, and the maker of a topic made by hand
    FirstTopics,  \* the topics there are at the start: whose each one is
    MaxTopics,    \* bound: topics ever made
    MaxFaults     \* bound: crashes, failed calls, busy databases, ...

ASSUME TopicsAssumption ==
    /\ IsFiniteSet(Process) /\ Process # {}
    /\ Nobody \notin Chat
    /\ MaxTopics \in Nat
    /\ MaxFaults \in Nat
    /\ FirstTopics \in Seq(Chat \cup {Nobody})
    /\ \A s, t \in DOMAIN FirstTopics :
         FirstTopics[s] = FirstTopics[t] /\ FirstTopics[s] # Nobody => s = t

VARIABLES
    chat,    \* Chat -> its row of bridge_chat
    forum,   \* the topics of the forum, in the order they were made
    walk,    \* Process -> what it is about to do for a chat
    card,    \* Chat -> the cards in its topic, and if the store knows one
    faults   \* faults so far

topicVars == <<chat, forum, walk, card>>

Resting == [op |-> "none", at |-> "rest", for |-> Nobody, thread |-> 0, gen |-> 0]

Place == {"rest", "discover", "create", "read", "bind", "edit", "post",
          "text", "record", "bound", "failed"}

Walk == [op : {"none", "ensure", "bind", "card"}, at : Place,
         for : Chat \cup {Nobody}, thread : Nat, gen : Nat]

TopicsOK ==
    /\ chat \in [Chat -> [known : BOOLEAN, thread : Nat, gen : Nat]]
    /\ forum \in Seq(Chat \cup {Nobody})
    /\ walk \in [Process -> Walk]
    /\ card \in [Chat -> [shown : Nat, known : BOOLEAN]]
    /\ \A p \in Process : walk[p].at # "rest" => walk[p].for \in Chat

(* The chats that have a topic at the start have their card, too.          *)
InFirst(j) == \E t \in DOMAIN FirstTopics : FirstTopics[t] = j

TopicsInit ==
    /\ chat = [j \in Chat |->
                 IF InFirst(j)
                 THEN [known |-> TRUE, gen |-> 1,
                       thread |-> CHOOSE t \in DOMAIN FirstTopics :
                                    FirstTopics[t] = j]
                 ELSE [known |-> FALSE, thread |-> 0, gen |-> 0]]
    /\ forum = FirstTopics
    /\ walk = [p \in Process |-> Resting]
    /\ card = [j \in Chat |-> [shown |-> IF InFirst(j) THEN 1 ELSE 0,
                               known |-> InFirst(j)]]
    /\ faults = 0

Fault == faults < MaxFaults /\ faults' = faults + 1

Active(j) == chat[j].thread # 0

(* ChatByTopic: the chats, at most one, that are bound to a topic.         *)
BoundTo(t) == {j \in Chat : chat[j].thread = t}

Idle(p) == walk[p].at = "rest"
Go(p, place) == walk' = [walk EXCEPT ![p].at = place]

-----------------------------------------------------------------------------
(* Where a walk begins.                                                    *)

Begin(p, o, j, place, t, g) ==
    /\ Idle(p)
    /\ walk' = [walk EXCEPT ![p] =
                  [op |-> o, at |-> place, for |-> j, thread |-> t, gen |-> g]]
    /\ UNCHANGED <<chat, forum, card, faults>>

(* Mutant: whether the chat has a topic is not asked.                      *)
EnsureTopicAnew(p, j) == Begin(p, "ensure", j, "discover", 0, 0)

(* EnsureTopic asks for the topic of j and makes one if there is none.     *)
EnsureTopic(p, j) ==
    Begin(p, "ensure", j, IF Active(j) THEN "bound" ELSE "discover", 0, 0)

(* /bind names a topic that is there; a chat not known is discovered.      *)
Bind(p, j, t) ==
    Begin(p, "bind", j, IF chat[j].known THEN "bind" ELSE "discover",
          t, chat[j].gen + 1)

(* UpdateMetaCard edits the card it knows of, or posts one.                *)
UpdateCard(p, j) ==
    /\ Active(j)
    /\ Begin(p, "card", j, IF card[j].known THEN "edit" ELSE "post", 0, 0)

(* /sync does one candidate after the other.                               *)
Sync(p, j) ==
    \/ UpdateCard(p, j)
    \/ ~Active(j) /\ EnsureTopic(p, j)

-----------------------------------------------------------------------------
(* The steps of a walk.                                                    *)

(* EnsureTopic goes on when the chat could not be written; /bind does not. *)
DiscoverChat(p) ==
    /\ walk[p].at = "discover"
    /\ \/ /\ chat' = [chat EXCEPT ![walk[p].for].known = TRUE]
          /\ Go(p, IF walk[p].op = "ensure" THEN "create" ELSE "read")
          /\ UNCHANGED faults
       \/ /\ Fault
          /\ Go(p, IF walk[p].op = "ensure" THEN "create" ELSE "failed")
          /\ UNCHANGED chat
    /\ UNCHANGED <<forum, card>>

(* Telegram makes a topic whenever it is asked; titles are not unique.     *)
MakeTopic(p) ==
    /\ Len(forum) < MaxTopics
    /\ forum' = Append(forum, walk[p].for)

CreateTopic(p) ==
    /\ walk[p].at = "create"
    /\ MakeTopic(p)
    /\ walk' = [walk EXCEPT ![p].at = "read", ![p].thread = Len(forum) + 1]
    /\ UNCHANGED <<chat, card, faults>>

(* The call is refused, or its answer is lost, the topic made or not.      *)
CreateTopicFails(p) ==
    /\ walk[p].at = "create"
    /\ Fault
    /\ MakeTopic(p) \/ UNCHANGED forum
    /\ Go(p, "failed")
    /\ UNCHANGED <<chat, card>>

ReadGeneration(p) ==
    /\ walk[p].at = "read"
    /\ walk' = [walk EXCEPT ![p].at = "bind",
                            ![p].gen = chat[walk[p].for].gen + 1]
    /\ UNCHANGED <<chat, forum, card, faults>>

(* Mutant: the generation alone decides.                                   *)
MayBindOver(j, t, g) == chat[j].known /\ g = chat[j].gen + 1

(* What BindTopic and the unique index of bridge_chat ask for.             *)
MayBind(j, t, g) ==
    /\ chat[j].known
    /\ g = chat[j].gen + 1
    /\ ~Active(j)
    /\ BoundTo(t) = {}

SameBinding(j, t, g) == chat[j].thread = t /\ chat[j].gen = g

(* A topic that EnsureTopic has bound gets its card next.                  *)
BindTopic(p) ==
    LET j == walk[p].for
        t == walk[p].thread
        g == walk[p].gen
        bound == IF walk[p].op = "ensure" THEN "post" ELSE "bound"
    IN  /\ walk[p].at = "bind"
        /\ \/ /\ MayBind(j, t, g)
              /\ chat' = [chat EXCEPT ![j].thread = t, ![j].gen = g]
              /\ Go(p, bound)
              /\ UNCHANGED faults
           \/ SameBinding(j, t, g) /\ Go(p, bound) /\ UNCHANGED <<chat, faults>>
           \/ /\ ~MayBind(j, t, g) /\ ~SameBinding(j, t, g)
              /\ Go(p, "failed")
              /\ UNCHANGED <<chat, faults>>
           \/ Fault /\ Go(p, "failed") /\ UNCHANGED chat
        /\ UNCHANGED <<forum, card>>

(* An edit of the card that fails, for whatever reason, is made up for by  *)
(* a new one.                                                              *)
EditCard(p) ==
    /\ walk[p].at = "edit"
    /\ \/ Go(p, "bound") /\ UNCHANGED faults
       \/ Fault /\ Go(p, "post")
    /\ UNCHANGED <<chat, forum, card>>

(* The card is a photo when there is an avatar, and a text when there is   *)
(* none or the photo failed; a call that failed may have shown its card.   *)
PostPhoto(p) ==
    /\ walk[p].at = "post"
    /\ \/ /\ card' = [card EXCEPT ![walk[p].for].shown = @ + 1]
          /\ Go(p, "record")
          /\ UNCHANGED faults
       \/ Go(p, "text") /\ UNCHANGED <<card, faults>>
       \/ /\ Fault
          /\ Go(p, "text")
          /\ card' \in {card, [card EXCEPT ![walk[p].for].shown = @ + 1]}
    /\ UNCHANGED <<chat, forum>>

PostText(p) ==
    /\ walk[p].at = "text"
    /\ \/ /\ card' = [card EXCEPT ![walk[p].for].shown = @ + 1]
          /\ Go(p, "record")
          /\ UNCHANGED faults
       \/ /\ Fault
          /\ Go(p, "bound")
          /\ card' \in {card, [card EXCEPT ![walk[p].for].shown = @ + 1]}
    /\ UNCHANGED <<chat, forum>>

(* Mutant: the number of the card is not written down.                     *)
RecordNothing(p) ==
    /\ walk[p].at = "record"
    /\ Go(p, "bound")
    /\ UNCHANGED <<card, faults, chat, forum>>

(* SetMetaMessageID, whose error nobody looks at.                          *)
RecordCard(p) ==
    /\ walk[p].at = "record"
    /\ \/ /\ card' = [card EXCEPT ![walk[p].for].known = TRUE]
          /\ UNCHANGED faults
       \/ Fault /\ UNCHANGED card
    /\ Go(p, "bound")
    /\ UNCHANGED <<chat, forum>>

WalkStep(p) ==
    \/ DiscoverChat(p) \/ CreateTopic(p) \/ CreateTopicFails(p)
    \/ ReadGeneration(p) \/ BindTopic(p)
    \/ EditCard(p) \/ PostPhoto(p) \/ PostText(p) \/ RecordCard(p)

(* The caller takes the result.                                            *)
Arrived(p) == walk[p].at \in {"bound", "failed"}

(* Mutant: only the chat is forgotten.                                     *)
LeaveHalfway(p) == walk' = [walk EXCEPT ![p].for = Nobody]

Leave(p) == walk' = [walk EXCEPT ![p] = Resting]

Return(p) ==
    /\ Arrived(p)
    /\ Leave(p)
    /\ UNCHANGED <<chat, forum, card, faults>>

(* The process dies on its way and starts again.                           *)
Stop(p) ==
    /\ ~Idle(p)
    /\ Fault
    /\ Leave(p)
    /\ UNCHANGED <<chat, forum, card>>

(* Something fails that is not on a walk.                                  *)
FaultElsewhere == Fault /\ UNCHANGED topicVars

-----------------------------------------------------------------------------
TopicsNext ==
    \/ \E p \in Process :
         \/ \E j \in Chat : \/ EnsureTopic(p, j) \/ Sync(p, j)
                            \/ \E t \in DOMAIN forum : Bind(p, j, t)
         \/ WalkStep(p) \/ Return(p) \/ Stop(p)
    \/ FaultElsewhere

TopicsSpec == TopicsInit /\ [][TopicsNext]_<<topicVars, faults>>

-----------------------------------------------------------------------------
(* A chat that has a topic keeps it, and no other chat gets the same one:  *)
(* two processes that make topics at the same time, and an operator who    *)
(* binds any topic in between, neither move a chat nor mix two             *)
(* (EnsureTopic, handleBind, BindTopic).                                   *)
ActiveStaysPut ==
    [][\A j \in Chat : Active(j) =>
         /\ chat'[j] = chat[j]
         /\ \A k \in Chat \ {j} : chat'[k].thread # chat[j].thread
      ]_<<topicVars, faults>>

(* Topics made for a chat that no chat has and no process is about to bind. *)
Abandoned(j) ==
    {t \in DOMAIN forum : /\ forum[t] = j
                          /\ BoundTo(t) = {}
                          /\ \A p \in Process : ~(/\ walk[p].op = "ensure"
                                                  /\ walk[p].at \in {"read", "bind"}
                                                  /\ walk[p].thread = t)}

(* A topic that stands empty has its cause: a fault costs at most one, and *)
(* so does each other process that was making one for the same chat while  *)
(* it was bound (EnsureTopic).  What an operator binds by hand costs none  *)
(* of its own, even where it is the topic that EnsureTopic has just made.  *)
TopicsAreAccountedFor ==
    \A j \in Chat :
        Cardinality(Abandoned(j)) <= faults + Cardinality(Process) - 1

(* A chat has one card, and at most one more for each fault and for each   *)
(* other process that posted at the same time (UpdateMetaCard).            *)
CardsAreAccountedFor ==
    \A j \in Chat : card[j].shown <= faults + Cardinality(Process)

TopicsTypeOK == TopicsOK /\ faults \in 0..MaxFaults

=============================================================================
