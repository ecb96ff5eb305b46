---------------------------- MODULE TopicsProofs ----------------------------
(***************************************************************************)
(* Proofs about chats and topics, for every number of processes, chats,    *)
(* topics and faults.                                                      *)
(***************************************************************************)
EXTENDS Topics, TLAPS, FiniteSetTheorems

(* Where a walk is tells what it is for, and what it has in hand: the      *)
(* topic that an operator named, or one that was made for the chat.  The   *)
(* generation counts from the first binding, so the one that is read for a *)
(* chat without a topic is not out of date while it has none.  Cards are   *)
(* for chats that have a topic.                                            *)
OnItsWay(p) ==
    LET w == walk[p]
    IN  /\ w.at = "rest" => w = Resting
        /\ w.at \in {"discover", "read", "bind"} => w.op \in {"ensure", "bind"}
        /\ w.at = "create" => w.op = "ensure"
        /\ w.op = "bind" => w.thread # 0
        /\ w.op = "ensure" /\ w.at \in {"read", "bind"} =>
             w.thread \in DOMAIN forum /\ forum[w.thread] = w.for
        /\ w.op = "ensure" /\ w.at = "bind" /\ ~Active(w.for) => w.gen = 1
        /\ w.at \in {"edit", "post", "text", "record"} => Active(w.for)

Walking == \A p \in Process : OnItsWay(p)

(* A topic belongs to one chat.                                            *)
OneChatEach == \A j, k \in Chat : Active(j) /\ chat[j].thread = chat[k].thread => j = k

(* A chat that has a topic is known; one that has none never had one, nor  *)
(* a card in it.                                                           *)
ChatsInOrder ==
    \A j \in Chat : IF Active(j) THEN chat[j].known
                                  ELSE chat[j].gen = 0 /\ ~card[j].known

Shape == TopicsTypeOK /\ Walking /\ OneChatEach /\ ChatsInOrder

For(p, j) == walk[p].for = j
Making(j) == {p \in Process : /\ For(p, j)
                              /\ walk[p].op = "ensure"
                              /\ walk[p].at \in {"discover", "create", "read", "bind"}}

(* Who has shown a card that the store does not know of, and who may show  *)
(* one yet without asking the store again.                                 *)
Recording(j) == {p \in Process : For(p, j) /\ walk[p].at = "record"}
Posting(j) == Making(j) \cup
              {p \in Process : For(p, j) /\ walk[p].at \in {"post", "text"}}

(* Until a card is recorded, each one that was shown is in the hands of    *)
(* its process, or was lost by a fault.  From then on only those who were  *)
(* on their way at that time show another.                                 *)
CardsOf(j) ==
    /\ ~card[j].known =>
         card[j].shown <= faults + Cardinality(Recording(j))
    /\ card[j].known =>
         card[j].shown + Cardinality(Posting(j)) <= faults + Cardinality(Process)

CardCount == \A j \in Chat : CardsOf(j)

(* The walks for a chat that could not be written: they make a topic that  *)
(* they will not be able to bind, and each has had its fault.              *)
Unwritten(j) == IF chat[j].known THEN {}
                ELSE {p \in Making(j) : walk[p].at # "discover"}

(* While a chat has no topic, one that is left empty was left by a fault.  *)
(* Once it has one, those who were making another leave theirs empty.      *)
TopicsOf(j) ==
    /\ ~Active(j) =>
         Cardinality(Abandoned(j)) + Cardinality(Unwritten(j)) <= faults
    /\ Active(j) =>
         Cardinality(Abandoned(j)) + Cardinality(Making(j))
           <= faults + Cardinality(Process) - 1

TopicCount == \A j \in Chat : TopicsOf(j)

(* The inductive invariant.                                                *)
TopicsInv == Shape /\ CardCount /\ TopicCount

-----------------------------------------------------------------------------
(* Finite sets that grow or shrink by one element.                         *)

LEMMA NoLarger ==
    ASSUME NEW S, IsFiniteSet(S), NEW T, T \subseteq S
    PROVE  /\ IsFiniteSet(T)
           /\ Cardinality(S) \in Nat /\ Cardinality(T) \in Nat
           /\ Cardinality(T) <= Cardinality(S)
BY FS_Subset, FS_CardinalityType

LEMMA OneMore ==
    ASSUME NEW S, IsFiniteSet(S), NEW T, NEW x, T \subseteq S \cup {x}
    PROVE  /\ IsFiniteSet(T)
           /\ Cardinality(S) \in Nat /\ Cardinality(T) \in Nat
           /\ Cardinality(T) <= Cardinality(S) + 1
<1>1. /\ IsFiniteSet(S \cup {x})
      /\ Cardinality(S \cup {x}) = IF x \in S THEN Cardinality(S)
                                              ELSE Cardinality(S) + 1
  BY FS_AddElement
<1>2. /\ IsFiniteSet(T)
      /\ Cardinality(T) \in Nat /\ Cardinality(S \cup {x}) \in Nat
      /\ Cardinality(T) <= Cardinality(S \cup {x})
  BY <1>1, NoLarger
<1>3. Cardinality(S) \in Nat
  BY FS_CardinalityType
<1> QED
  BY <1>1, <1>2, <1>3

LEMMA OneLess ==
    ASSUME NEW S, IsFiniteSet(S), NEW x \in S, NEW T, T \subseteq S \ {x}
    PROVE  /\ IsFiniteSet(T)
           /\ Cardinality(S) \in Nat /\ Cardinality(T) \in Nat
           /\ Cardinality(T) + 1 <= Cardinality(S)
<1>1. IsFiniteSet(S \ {x}) /\ Cardinality(S \ {x}) = Cardinality(S) - 1
  BY FS_RemoveElement
<1>2. /\ IsFiniteSet(T)
      /\ Cardinality(T) \in Nat /\ Cardinality(S \ {x}) \in Nat
      /\ Cardinality(T) <= Cardinality(S \ {x})
  BY <1>1, NoLarger
<1>3. Cardinality(S) \in Nat
  BY FS_CardinalityType
<1> QED
  BY <1>1, <1>2, <1>3

(* Two sets of processes that have none in common.                         *)
LEMMA TwoSorts ==
    ASSUME NEW U, IsFiniteSet(U), NEW S, NEW T,
           S \subseteq U, T \subseteq U, S \cap T = {}
    PROVE  /\ Cardinality(S) \in Nat /\ Cardinality(T) \in Nat
           /\ Cardinality(S) + Cardinality(T) <= Cardinality(U)
<1>1. IsFiniteSet(S) /\ IsFiniteSet(T) /\ Cardinality(S) \in Nat /\ Cardinality(T) \in Nat
  BY NoLarger
<1>2. Cardinality(S \cup T) = Cardinality(S) + Cardinality(T) - Cardinality(S \cap T)
  BY <1>1, FS_Union
<1>3. Cardinality(S \cap T) = 0
  BY FS_EmptySet
<1>4. Cardinality(S \cup T) <= Cardinality(U) /\ Cardinality(S \cup T) \in Nat /\ Cardinality(U) \in Nat
  BY NoLarger, S \cup T \subseteq U
<1> QED
  BY <1>1, <1>2, <1>3, <1>4

(* The sets that are counted are finite.                                   *)
LEMMA Finite ==
    ASSUME TopicsTypeOK, NEW j
    PROVE  /\ IsFiniteSet(Process) /\ Cardinality(Process) \in Nat \ {0}
           /\ IsFiniteSet(Making(j)) /\ IsFiniteSet(Recording(j))
           /\ IsFiniteSet(Posting(j)) /\ IsFiniteSet(Unwritten(j))
           /\ IsFiniteSet(Abandoned(j))
<1>1. IsFiniteSet(Process) /\ Cardinality(Process) \in Nat \ {0}
  BY TopicsAssumption, FS_EmptySet, FS_CardinalityType
<1>2. /\ Making(j) \subseteq Process /\ Recording(j) \subseteq Process
      /\ Posting(j) \subseteq Process /\ Unwritten(j) \subseteq Process
  BY DEF Making, Recording, Posting, Unwritten
<1>3. Abandoned(j) \subseteq 1..Len(forum) /\ Len(forum) \in Nat
  BY DEF Abandoned, TopicsTypeOK, TopicsOK
<1>4. IsFiniteSet(1..Len(forum))
  BY <1>3, FS_Interval
<1> QED
  BY <1>1, <1>2, <1>3, <1>4, FS_Subset

-----------------------------------------------------------------------------
(* Types.                                                                  *)

LEMMA InitType == TopicsInit => TopicsTypeOK
<1> SUFFICES ASSUME TopicsInit PROVE TopicsTypeOK
  OBVIOUS
<1>1. \A j \in Chat : InFirst(j) =>
        (CHOOSE t \in DOMAIN FirstTopics : FirstTopics[t] = j) \in Nat
  BY TopicsAssumption DEF InFirst
<1>2. chat \in [Chat -> [known : BOOLEAN, thread : Nat, gen : Nat]]
  BY <1>1 DEF TopicsInit
<1>3. card \in [Chat -> [shown : Nat, known : BOOLEAN]]
  BY DEF TopicsInit, InFirst
<1>4. walk \in [Process -> Walk] /\ \A p \in Process : walk[p].at = "rest"
  BY DEF TopicsInit, Resting, Walk, Place
<1> QED
  BY <1>2, <1>3, <1>4, TopicsAssumption DEF TopicsInit, TopicsTypeOK, TopicsOK

(* A walk that goes on, by any step, has a place and a chat.               *)
LEMMA GoType ==
    ASSUME TopicsOK, NEW p \in Process, ~Idle(p), NEW place \in Place, Go(p, place)
    PROVE  /\ walk' \in [Process -> Walk]
           /\ \A q \in Process : walk'[q].at # "rest" => walk'[q].for \in Chat
BY DEF TopicsOK, Walk, Go, Idle

LEMMA BeginType ==
    ASSUME TopicsTypeOK, NEW p \in Process, NEW o \in {"ensure", "bind", "card"},
           NEW j \in Chat, NEW place \in Place, NEW t \in Nat, NEW g \in Nat,
           Begin(p, o, j, place, t, g)
    PROVE  TopicsTypeOK'
BY DEF TopicsTypeOK, TopicsOK, Walk, Begin

LEMMA SetOutType ==
    ASSUME TopicsTypeOK, NEW p \in Process, NEW j \in Chat,
           \/ EnsureTopic(p, j) \/ UpdateCard(p, j)
           \/ \E t \in DOMAIN forum : Bind(p, j, t)
    PROVE  TopicsTypeOK'
<1>1. {"bound", "discover", "bind", "edit", "post"} \subseteq Place /\ 0 \in Nat
  BY DEF Place
<1>2. chat[j].gen + 1 \in Nat /\ DOMAIN forum \subseteq Nat
  BY DEF TopicsTypeOK, TopicsOK
<1>3. CASE EnsureTopic(p, j)
  BY <1>1, <1>3, BeginType DEF EnsureTopic
<1>4. CASE UpdateCard(p, j)
  BY <1>1, <1>4, BeginType DEF UpdateCard
<1>5. CASE \E t \in DOMAIN forum : Bind(p, j, t)
  BY <1>1, <1>2, <1>5, BeginType DEF Bind
<1> QED
  BY <1>3, <1>4, <1>5

LEMMA FaultType ==
    ASSUME faults \in 0..MaxFaults, Fault
    PROVE  faults' \in 0..MaxFaults /\ faults' = faults + 1
BY TopicsAssumption DEF Fault

LEMMA MakeTopicType ==
    ASSUME TopicsOK, NEW p \in Process, ~Idle(p), MakeTopic(p)
    PROVE  /\ forum' \in Seq(Chat \cup {Nobody})
           /\ Len(forum') = Len(forum) + 1
           /\ DOMAIN forum' = DOMAIN forum \cup {Len(forum) + 1}
           /\ forum'[Len(forum) + 1] = walk[p].for
           /\ \A t \in DOMAIN forum : forum'[t] = forum[t]
BY DEF TopicsOK, MakeTopic, Idle

(* What DiscoverChat and BindTopic can do to the row of their chat.        *)
LEMMA DiscoverEffect ==
    ASSUME TopicsOK, NEW p \in Process, DiscoverChat(p)
    PROVE  LET j == walk[p].for IN
           /\ j \in Chat /\ ~Idle(p)
           /\ chat' \in [Chat -> [known : BOOLEAN, thread : Nat, gen : Nat]]
           /\ \A k \in Chat \ {j} : chat'[k] = chat[k]
           /\ chat'[j].thread = chat[j].thread /\ chat'[j].gen = chat[j].gen
           /\ \/ chat'[j].known /\ UNCHANGED faults
              \/ chat' = chat /\ Fault
<1> DEFINE j == walk[p].for
<1>1. j \in Chat /\ ~Idle(p)
  BY DEF TopicsOK, DiscoverChat, Idle
<1> DEFINE r == [chat[j] EXCEPT !.known = TRUE]
<1>2. \/ chat' = [chat EXCEPT ![j] = r] /\ UNCHANGED faults
      \/ chat' = chat /\ Fault
  BY DEF DiscoverChat
<1>3. /\ r \in [known : BOOLEAN, thread : Nat, gen : Nat]
      /\ r.known = TRUE /\ r.thread = chat[j].thread /\ r.gen = chat[j].gen
  BY <1>1 DEF TopicsOK
<1> HIDE DEF r
<1> QED
  BY <1>1, <1>2, <1>3 DEF TopicsOK

LEMMA BindEffect ==
    ASSUME TopicsOK, NEW p \in Process, BindTopic(p)
    PROVE  LET j == walk[p].for
               t == walk[p].thread
               g == walk[p].gen
           IN
           /\ j \in Chat /\ t \in Nat /\ g \in Nat /\ ~Idle(p)
           /\ chat' \in [Chat -> [known : BOOLEAN, thread : Nat, gen : Nat]]
           /\ \A k \in Chat \ {j} : chat'[k] = chat[k]
           /\ \/ /\ Go(p, IF walk[p].op = "ensure" THEN "post" ELSE "bound")
                 /\ UNCHANGED faults
                 /\ MayBind(j, t, g)
                 /\ chat'[j].known /\ chat'[j].thread = t /\ chat'[j].gen = g
              \/ /\ Go(p, IF walk[p].op = "ensure" THEN "post" ELSE "bound")
                 /\ UNCHANGED <<chat, faults>>
                 /\ SameBinding(j, t, g)
              \/ /\ Go(p, "failed")
                 /\ UNCHANGED chat
                 /\ Fault \/ (~MayBind(j, t, g) /\ UNCHANGED faults)
<1> DEFINE j == walk[p].for
           t == walk[p].thread
           g == walk[p].gen
<1>1. j \in Chat /\ t \in Nat /\ g \in Nat /\ ~Idle(p)
  BY DEF TopicsOK, Walk, BindTopic, Idle
<1> DEFINE r == [chat[j] EXCEPT !.thread = t, !.gen = g]
           rows == [chat EXCEPT ![j].thread = t, ![j].gen = g]
           b == IF walk[p].op = "ensure" THEN "post" ELSE "bound"
<1>2. rows = [chat EXCEPT ![j] = r]
  BY <1>1 DEF TopicsOK
<1>3. /\ r \in [known : BOOLEAN, thread : Nat, gen : Nat]
      /\ r.known = chat[j].known /\ r.thread = t /\ r.gen = g
  BY <1>1 DEF TopicsOK
<1>4. \/ MayBind(j, t, g) /\ chat' = rows /\ Go(p, b) /\ UNCHANGED faults
      \/ SameBinding(j, t, g) /\ Go(p, b) /\ UNCHANGED <<chat, faults>>
      \/ /\ Go(p, "failed") /\ UNCHANGED chat
         /\ Fault \/ (~MayBind(j, t, g) /\ UNCHANGED faults)
  BY DEF BindTopic
<1> HIDE DEF r, rows, b
<1>5. /\ rows \in [Chat -> [known : BOOLEAN, thread : Nat, gen : Nat]]
      /\ rows[j] = r
      /\ \A k \in Chat \ {j} : rows[k] = chat[k]
  BY <1>1, <1>2, <1>3 DEF TopicsOK
<1>6. chat' = chat \/ chat' = rows
  BY <1>4
<1>7. /\ chat' \in [Chat -> [known : BOOLEAN, thread : Nat, gen : Nat]]
      /\ \A k \in Chat \ {j} : chat'[k] = chat[k]
  BY <1>5, <1>6 DEF TopicsOK
<1>8. MayBind(j, t, g) /\ chat' = rows
        => chat'[j].known /\ chat'[j].thread = t /\ chat'[j].gen = g
  BY <1>3, <1>5 DEF MayBind
<1> QED
  BY <1>1, <1>4, <1>7, <1>8 DEF b

(* What the steps at a card can do to it.                                  *)
Shows(j) == card' = [card EXCEPT ![j].shown = @ + 1]
Notes(j) == card' = [card EXCEPT ![j].known = TRUE]

LEMMA ShowsType ==
    ASSUME TopicsOK, NEW j \in Chat, Shows(j)
    PROVE  /\ card' \in [Chat -> [shown : Nat, known : BOOLEAN]]
           /\ \A k \in Chat \ {j} : card'[k] = card[k]
           /\ card'[j].shown = card[j].shown + 1 /\ card'[j].known = card[j].known
<1> DEFINE r == [card[j] EXCEPT !.shown = card[j].shown + 1]
<1>0. card[j] \in [shown : Nat, known : BOOLEAN] /\ card[j].shown + 1 \in Nat
  BY DEF TopicsOK
<1>1. /\ r \in [shown : Nat, known : BOOLEAN]
      /\ r.shown = card[j].shown + 1 /\ r.known = card[j].known
  BY <1>0
<1>2. card' = [card EXCEPT ![j] = r]
  BY DEF Shows
<1> HIDE DEF r
<1> QED
  BY <1>1, <1>2 DEF TopicsOK

LEMMA NotesType ==
    ASSUME TopicsOK, NEW j \in Chat, Notes(j)
    PROVE  /\ card' \in [Chat -> [shown : Nat, known : BOOLEAN]]
           /\ \A k \in Chat \ {j} : card'[k] = card[k]
           /\ card'[j].shown = card[j].shown /\ card'[j].known = TRUE
BY DEF TopicsOK, Notes

LEMMA WalkStepType ==
    ASSUME TopicsTypeOK, NEW p \in Process, WalkStep(p)
    PROVE  TopicsTypeOK'
<1> USE DEF TopicsTypeOK
<1>0. {"rest", "discover", "create", "read", "bind", "edit", "post",
       "text", "record", "bound", "failed"} = Place
  BY DEF Place
<1>1. Fault => faults' \in 0..MaxFaults
  BY FaultType
<1>2. CASE DiscoverChat(p)
  <2>1. walk[p].for \in Chat /\ ~Idle(p)
    BY <1>2 DEF TopicsOK, DiscoverChat, Idle
  <2>2. PICK place \in {"create", "read", "failed"} : Go(p, place)
    BY <1>2 DEF DiscoverChat
  <2>3. chat' \in [Chat -> [known : BOOLEAN, thread : Nat, gen : Nat]]
    BY <1>2, DiscoverEffect DEF TopicsOK
  <2> QED
    BY <1>0, <1>1, <1>2, <2>1, <2>2, <2>3, GoType DEF TopicsOK, DiscoverChat
<1>3. CASE CreateTopic(p)
  <2>1. ~Idle(p) /\ Len(forum) + 1 \in Nat
    BY <1>3 DEF TopicsOK, CreateTopic, Idle
  <2>2. [walk[p] EXCEPT !.at = "read", !.thread = Len(forum) + 1] \in Walk
    BY <1>0, <2>1 DEF TopicsOK, Walk
  <2>3. walk' = [walk EXCEPT ![p] =
                   [walk[p] EXCEPT !.at = "read", !.thread = Len(forum) + 1]]
    BY <1>3 DEF CreateTopic
  <2>4. /\ walk' \in [Process -> Walk]
        /\ \A q \in Process : walk'[q].at # "rest" => walk'[q].for \in Chat
    BY <2>1, <2>2, <2>3 DEF TopicsOK, Idle, Walk
  <2> QED
    BY <1>3, <2>1, <2>4, MakeTopicType DEF TopicsOK, CreateTopic
<1>4. CASE CreateTopicFails(p)
  <2>1. ~Idle(p)
    BY <1>4 DEF CreateTopicFails, Idle
  <2> QED
    BY <1>0, <1>1, <1>4, <2>1, GoType, MakeTopicType DEF TopicsOK, CreateTopicFails
<1>5. CASE ReadGeneration(p)
  <2>1. chat[walk[p].for].gen + 1 \in Nat
    BY <1>5 DEF TopicsOK, ReadGeneration
  <2> DEFINE g == chat[walk[p].for].gen + 1
  <2>2. g \in Nat /\ ~Idle(p)
    BY <1>5, <2>1 DEF ReadGeneration, Idle
  <2>3. walk' = [walk EXCEPT ![p] = [walk[p] EXCEPT !.at = "bind", !.gen = g]]
    BY <1>5 DEF ReadGeneration
  <2> HIDE DEF g
  <2>4. [walk[p] EXCEPT !.at = "bind", !.gen = g] \in Walk
    BY <1>0, <2>2 DEF TopicsOK, Walk
  <2>5. /\ walk' \in [Process -> Walk]
        /\ \A q \in Process : walk'[q].at # "rest" => walk'[q].for \in Chat
    BY <2>2, <2>3, <2>4 DEF TopicsOK, Idle, Walk
  <2> QED
    BY <1>5, <2>5 DEF TopicsOK, ReadGeneration
<1>6. CASE BindTopic(p)
  <2>1. ~Idle(p)
    BY <1>6 DEF BindTopic, Idle
  <2>2. PICK place \in {"post", "bound", "failed"} : Go(p, place)
    BY <1>6 DEF BindTopic
  <2>3. chat' \in [Chat -> [known : BOOLEAN, thread : Nat, gen : Nat]]
    BY <1>6, BindEffect
  <2>4. faults' \in 0..MaxFaults /\ UNCHANGED <<forum, card>>
    BY <1>1, <1>6 DEF BindTopic
  <2>5. /\ walk' \in [Process -> Walk]
        /\ \A q \in Process : walk'[q].at # "rest" => walk'[q].for \in Chat
    BY <1>0, <2>1, <2>2, GoType
  <2> QED
    BY <2>3, <2>4, <2>5 DEF TopicsOK
<1>7. CASE EditCard(p) \/ PostPhoto(p) \/ PostText(p) \/ RecordCard(p)
  <2>1. walk[p].for \in Chat /\ ~Idle(p)
    BY <1>7 DEF TopicsOK, EditCard, PostPhoto, PostText, RecordCard, Idle
  <2>2. PICK place \in {"post", "text", "record", "bound"} : Go(p, place)
    BY <1>7 DEF EditCard, PostPhoto, PostText, RecordCard
  <2>3. card' \in [Chat -> [shown : Nat, known : BOOLEAN]]
    <3>1. card' = card \/ Shows(walk[p].for) \/ Notes(walk[p].for)
      BY <1>7 DEF EditCard, PostPhoto, PostText, RecordCard, Shows, Notes
    <3> QED
      BY <2>1, <3>1, ShowsType, NotesType DEF TopicsOK
  <2>4. faults' \in 0..MaxFaults /\ UNCHANGED <<chat, forum>>
    BY <1>1, <1>7 DEF EditCard, PostPhoto, PostText, RecordCard
  <2>5. /\ walk' \in [Process -> Walk]
        /\ \A q \in Process : walk'[q].at # "rest" => walk'[q].for \in Chat
    BY <1>0, <2>1, <2>2, GoType
  <2> QED
    BY <2>3, <2>4, <2>5 DEF TopicsOK
<1> QED
  BY <1>2, <1>3, <1>4, <1>5, <1>6, <1>7 DEF WalkStep

LEMMA LeaveType ==
    ASSUME TopicsOK, NEW p \in Process, Leave(p)
    PROVE  /\ walk' \in [Process -> Walk]
           /\ \A q \in Process : walk'[q].at # "rest" => walk'[q].for \in Chat
BY DEF TopicsOK, Leave, Resting, Walk, Place

LEMMA NextType == TopicsTypeOK /\ [TopicsNext]_<<topicVars, faults>> => TopicsTypeOK'
<1> SUFFICES ASSUME TopicsTypeOK, [TopicsNext]_<<topicVars, faults>>
             PROVE  TopicsTypeOK'
  OBVIOUS
<1>1. ASSUME NEW p \in Process, NEW j \in Chat,
             \/ EnsureTopic(p, j) \/ Sync(p, j)
             \/ \E t \in DOMAIN forum : Bind(p, j, t)
      PROVE  TopicsTypeOK'
  BY <1>1, SetOutType DEF Sync
<1>2. ASSUME NEW p \in Process, WalkStep(p) PROVE TopicsTypeOK'
  BY <1>2, WalkStepType
<1>3. ASSUME NEW p \in Process, Return(p) \/ Stop(p) PROVE TopicsTypeOK'
  BY <1>3, LeaveType, FaultType DEF TopicsTypeOK, TopicsOK, Return, Stop
<1>4. CASE FaultElsewhere
  BY <1>4, FaultType DEF TopicsTypeOK, TopicsOK, FaultElsewhere, topicVars
<1>5. CASE UNCHANGED <<topicVars, faults>>
  BY <1>5 DEF TopicsTypeOK, TopicsOK, topicVars
<1> QED
  BY <1>1, <1>2, <1>3, <1>4, <1>5 DEF TopicsNext

(* A process that is on its way has a chat, and every variable its type.   *)
THEOREM TopicsTypeCorrect == TopicsSpec => []TopicsTypeOK
BY InitType, NextType, PTL DEF TopicsSpec

-----------------------------------------------------------------------------
(* What one process does to the walks.                                     *)

Others(p) == \A q \in Process \ {p} : walk'[q] = walk[q]

LEMMA GoEffect ==
    ASSUME TopicsOK, NEW p \in Process, NEW place, Go(p, place)
    PROVE  /\ Others(p)
           /\ walk'[p].at = place /\ walk'[p].op = walk[p].op
           /\ walk'[p].for = walk[p].for /\ walk'[p].thread = walk[p].thread
           /\ walk'[p].gen = walk[p].gen
BY DEF TopicsOK, Walk, Go, Others

LEMMA BeginEffect ==
    ASSUME TopicsOK, NEW p \in Process, NEW o, NEW j, NEW place, NEW t, NEW g,
           Begin(p, o, j, place, t, g)
    PROVE  /\ Others(p) /\ UNCHANGED <<chat, forum, card, faults>>
           /\ walk'[p].at = place /\ walk'[p].op = o
           /\ walk'[p].for = j /\ walk'[p].thread = t
           /\ walk'[p].gen = g
BY DEF TopicsOK, Begin, Others

LEMMA LeaveEffect ==
    ASSUME TopicsOK, NEW p \in Process, Leave(p)
    PROVE  Others(p) /\ walk'[p] = Resting
BY DEF TopicsOK, Leave, Others

LEMMA CreateEffect ==
    ASSUME TopicsOK, NEW p \in Process, CreateTopic(p)
    PROVE  /\ Others(p)
           /\ walk'[p].at = "read" /\ walk'[p].op = walk[p].op
           /\ walk'[p].for = walk[p].for /\ walk'[p].thread = Len(forum) + 1
BY DEF TopicsOK, Walk, CreateTopic, Others

LEMMA ReadEffect ==
    ASSUME TopicsOK, NEW p \in Process, ReadGeneration(p)
    PROVE  /\ Others(p)
           /\ walk'[p].at = "bind" /\ walk'[p].op = walk[p].op
           /\ walk'[p].for = walk[p].for /\ walk'[p].thread = walk[p].thread
           /\ walk'[p].gen = chat[walk[p].for].gen + 1
BY DEF TopicsOK, Walk, ReadGeneration, Others

(* What no step takes away: a topic from the forum, or one from a chat.    *)
Onward ==
    /\ DOMAIN forum \subseteq DOMAIN forum'
    /\ \A t \in DOMAIN forum : forum'[t] = forum[t]
    /\ \A j \in Chat : Active(j) => Active(j)'

LEMMA OthersStayInOrder ==
    ASSUME TopicsOK, Walking, Onward, NEW p \in Process, Others(p), OnItsWay(p)'
    PROVE  Walking'
<1> SUFFICES ASSUME NEW q \in Process, q # p PROVE OnItsWay(q)'
  BY DEF Walking
<1>1. OnItsWay(q) /\ walk'[q] = walk[q]
  BY DEF Walking, Others
<1>2. walk[q].at # "rest" => walk[q].for \in Chat
  BY DEF TopicsOK
<1> QED
  BY <1>1, <1>2 DEF OnItsWay, Onward

-----------------------------------------------------------------------------
(* The shape.                                                              *)

LEMMA InitShape == TopicsInit => Shape
<1> SUFFICES ASSUME TopicsInit PROVE Shape
  OBVIOUS
<1>1. TopicsTypeOK
  BY InitType
<1>2. Walking
  BY DEF TopicsInit, Walking, OnItsWay, Resting
<1>3. \A j \in Chat :
        /\ Active(j) <=> InFirst(j)
        /\ InFirst(j) => /\ chat[j].thread \in DOMAIN FirstTopics
                         /\ FirstTopics[chat[j].thread] = j
  BY TopicsAssumption DEF TopicsInit, InFirst, Active
<1>4. OneChatEach
  BY <1>1, <1>3 DEF OneChatEach, TopicsInit, Active
<1>5. ChatsInOrder
  BY <1>3 DEF ChatsInOrder, TopicsInit
<1> QED
  BY <1>1, <1>2, <1>4, <1>5 DEF Shape

(* Steps that leave the chats and the cards as they are.                   *)
LEMMA ChatsAsTheyAre ==
    ASSUME Shape, UNCHANGED <<chat, card>>
    PROVE  OneChatEach' /\ ChatsInOrder' /\ \A j \in Chat : Active(j)' <=> Active(j)
BY DEF Shape, OneChatEach, ChatsInOrder, Active

LEMMA SetOutShape ==
    ASSUME Shape, NEW p \in Process, NEW j \in Chat,
           \/ EnsureTopic(p, j) \/ UpdateCard(p, j)
           \/ \E t \in DOMAIN forum : Bind(p, j, t)
    PROVE  Shape'
<1> USE DEF Shape
<1>1. TopicsTypeOK' /\ TopicsOK
  BY SetOutType DEF TopicsTypeOK
<1>2. DOMAIN forum \subseteq Nat \ {0}
  BY <1>1 DEF TopicsOK
<1>3. Others(p) /\ UNCHANGED <<chat, forum, card, faults>> /\ OnItsWay(p)'
  <2>1. CASE EnsureTopic(p, j)
    BY <1>1, <2>1, BeginEffect DEF EnsureTopic, OnItsWay, Active
  <2>2. CASE UpdateCard(p, j)
    BY <1>1, <2>2, BeginEffect DEF UpdateCard, OnItsWay, Active
  <2>3. CASE \E t \in DOMAIN forum : Bind(p, j, t)
    BY <1>1, <1>2, <2>3, BeginEffect DEF Bind, OnItsWay, Active
  <2> QED
    BY <2>1, <2>2, <2>3
<1>4. Onward
  BY <1>3 DEF Onward, Active
<1> QED
  BY <1>1, <1>3, <1>4, OthersStayInOrder, ChatsAsTheyAre

LEMMA DiscoverShape ==
    ASSUME Shape, NEW p \in Process, DiscoverChat(p)
    PROVE  Shape'
<1> USE DEF Shape
<1>1. TopicsTypeOK' /\ TopicsOK
  BY WalkStepType DEF TopicsTypeOK, WalkStep
<1>2. \A k \in Chat : /\ chat'[k].thread = chat[k].thread
                      /\ chat'[k].gen = chat[k].gen
                      /\ chat[k].known => chat'[k].known
  BY <1>1, DiscoverEffect
<1>3. UNCHANGED <<forum, card>>
  BY DEF DiscoverChat
<1>4. OneChatEach' /\ ChatsInOrder' /\ Onward
  BY <1>2, <1>3 DEF OneChatEach, ChatsInOrder, Active, Onward
<1>5. Others(p) /\ OnItsWay(p)'
  <2>1. walk[p].at = "discover" /\ OnItsWay(p)
    BY DEF DiscoverChat, Walking
  <2>2. \/ walk[p].op = "ensure" /\ Go(p, "create")
        \/ walk[p].op # "ensure" /\ (Go(p, "read") \/ Go(p, "failed"))
    BY DEF DiscoverChat
  <2> QED
    BY <1>1, <1>2, <2>1, <2>2, GoEffect DEF OnItsWay
<1> QED
  BY <1>1, <1>4, <1>5, OthersStayInOrder

LEMMA CreateShape ==
    ASSUME Shape, NEW p \in Process, CreateTopic(p) \/ CreateTopicFails(p)
    PROVE  Shape'
<1> USE DEF Shape
<1>1. TopicsTypeOK' /\ TopicsOK /\ ~Idle(p)
  BY WalkStepType DEF TopicsTypeOK, WalkStep, CreateTopic, CreateTopicFails, Idle
<1>2. UNCHANGED <<chat, card>>
  BY DEF CreateTopic, CreateTopicFails
<1>3. Onward
  BY <1>1, <1>2, MakeTopicType DEF CreateTopic, CreateTopicFails, Onward, Active
<1>4. Others(p) /\ OnItsWay(p)'
  <2>1. walk[p].at = "create" /\ walk[p].op = "ensure"
    BY DEF CreateTopic, CreateTopicFails, Walking, OnItsWay
  <2>2. CASE CreateTopic(p)
    BY <1>1, <2>1, <2>2, CreateEffect, MakeTopicType DEF CreateTopic, OnItsWay
  <2>3. CASE CreateTopicFails(p)
    BY <1>1, <2>1, <2>3, GoEffect DEF CreateTopicFails, OnItsWay
  <2> QED
    BY <2>2, <2>3
<1> QED
  BY <1>1, <1>2, <1>3, <1>4, OthersStayInOrder, ChatsAsTheyAre

LEMMA ReadShape ==
    ASSUME Shape, NEW p \in Process, ReadGeneration(p)
    PROVE  Shape'
<1> USE DEF Shape
<1>1. TopicsTypeOK' /\ TopicsOK
  BY WalkStepType DEF TopicsTypeOK, WalkStep
<1>2. UNCHANGED <<chat, forum, card>>
  BY DEF ReadGeneration
<1>3. Onward
  BY <1>2 DEF Onward, Active
<1>4. Others(p) /\ OnItsWay(p)'
  <2>1. walk[p].at = "read" /\ OnItsWay(p) /\ walk[p].for \in Chat
    BY <1>1 DEF ReadGeneration, Walking, TopicsOK
  <2>2. ~Active(walk[p].for) => chat[walk[p].for].gen = 0
    BY <2>1 DEF ChatsInOrder
  <2> QED
    BY <1>1, <1>2, <2>1, <2>2, ReadEffect DEF OnItsWay, Active
<1> QED
  BY <1>1, <1>2, <1>3, <1>4, OthersStayInOrder, ChatsAsTheyAre

LEMMA BindShape ==
    ASSUME Shape, NEW p \in Process, BindTopic(p)
    PROVE  Shape'
<1> USE DEF Shape
<1> DEFINE j == walk[p].for
           t == walk[p].thread
           g == walk[p].gen
<1>1. TopicsTypeOK' /\ TopicsOK /\ UNCHANGED <<forum, card>>
  BY WalkStepType DEF TopicsTypeOK, WalkStep, BindTopic
<1> DEFINE b == IF walk[p].op = "ensure" THEN "post" ELSE "bound"
<1>2. /\ j \in Chat /\ t \in Nat /\ g \in Nat
      /\ \A k \in Chat \ {j} : chat'[k] = chat[k]
      /\ \/ /\ Go(p, b) /\ MayBind(j, t, g)
            /\ chat'[j].known /\ chat'[j].thread = t /\ chat'[j].gen = g
         \/ Go(p, b) /\ UNCHANGED chat /\ chat[j].thread = t
         \/ Go(p, "failed") /\ UNCHANGED chat
  BY <1>1, BindEffect DEF SameBinding
<1>3. walk[p].at = "bind" /\ OnItsWay(p) /\ t # 0
  <2>1. walk[p].at = "bind" /\ OnItsWay(p)
    BY DEF BindTopic, Walking
  <2>2. 0 \notin DOMAIN forum
    BY <1>1 DEF TopicsOK
  <2> QED
    BY <2>1, <2>2 DEF OnItsWay
<1>4. \A k \in Chat : Active(k) => chat'[k] = chat[k]
  BY <1>2 DEF MayBind
<1>5. Onward
  BY <1>1, <1>4 DEF Onward, Active
<1>6. ChatsInOrder'
  BY <1>1, <1>2, <1>3 DEF ChatsInOrder, Active
<1>7. OneChatEach'
  BY <1>2, <1>3 DEF OneChatEach, MayBind, BoundTo, Active
<1>8. Others(p) /\ OnItsWay(p)'
  <2>1. ASSUME Go(p, b), chat'[j].thread # 0
        PROVE  Others(p) /\ OnItsWay(p)'
    <3>1. CASE walk[p].op = "ensure"
      BY <1>1, <1>3, <2>1, <3>1, GoEffect DEF OnItsWay, Active
    <3>2. CASE walk[p].op # "ensure"
      BY <1>1, <1>3, <2>1, <3>2, GoEffect DEF OnItsWay, Active
    <3> QED
      BY <3>1, <3>2
  <2>2. CASE Go(p, "failed")
    BY <1>1, <1>3, <2>2, GoEffect DEF OnItsWay
  <2>3. Go(p, "failed") \/ (Go(p, b) /\ chat'[j].thread = t)
    BY <1>2
  <2> QED
    BY <1>3, <2>1, <2>2, <2>3
<1> QED
  BY <1>1, <1>5, <1>6, <1>7, <1>8, OthersStayInOrder

LEMMA CardShape ==
    ASSUME Shape, NEW p \in Process,
           EditCard(p) \/ PostPhoto(p) \/ PostText(p) \/ RecordCard(p)
    PROVE  Shape'
<1> USE DEF Shape
<1>1. TopicsTypeOK' /\ TopicsOK /\ UNCHANGED <<chat, forum>>
  BY WalkStepType DEF TopicsTypeOK, WalkStep, EditCard, PostPhoto, PostText, RecordCard
<1>2. walk[p].at \in {"edit", "post", "text", "record"} /\ walk[p].for \in Chat
  BY <1>1 DEF TopicsOK, EditCard, PostPhoto, PostText, RecordCard
<1>3. Active(walk[p].for) /\ OnItsWay(p)
  BY <1>2 DEF Walking, OnItsWay
<1>4. Others(p) /\ OnItsWay(p)'
  <2>1. PICK place \in {"post", "text", "record", "bound"} : Go(p, place)
    BY DEF EditCard, PostPhoto, PostText, RecordCard
  <2> QED
    BY <1>1, <1>3, <2>1, GoEffect DEF OnItsWay, Active
<1>5. Onward
  BY <1>1 DEF Onward, Active
<1>6. OneChatEach'
  BY <1>1 DEF OneChatEach, Active
<1>7. \A k \in Chat : ~Active(k) => card'[k] = card[k]
  <2>1. card' = card \/ Shows(walk[p].for) \/ Notes(walk[p].for)
    BY DEF EditCard, PostPhoto, PostText, RecordCard, Shows, Notes
  <2> QED
    BY <1>1, <1>2, <1>3, <2>1, ShowsType, NotesType
<1>8. ChatsInOrder'
  BY <1>1, <1>7 DEF ChatsInOrder, Active
<1> QED
  BY <1>1, <1>4, <1>5, <1>6, <1>8, OthersStayInOrder

LEMMA LeaveShape ==
    ASSUME Shape, NEW p \in Process, Leave(p), UNCHANGED <<chat, forum, card>>,
           TopicsTypeOK'
    PROVE  Shape'
<1>1. Others(p) /\ OnItsWay(p)'
  BY LeaveEffect DEF Shape, TopicsTypeOK, OnItsWay, Resting
<1>2. Onward
  BY DEF Onward, Active
<1> QED
  BY <1>1, <1>2, OthersStayInOrder, ChatsAsTheyAre DEF Shape, TopicsTypeOK

LEMMA NextShape == Shape /\ [TopicsNext]_<<topicVars, faults>> => Shape'
<1> SUFFICES ASSUME Shape, [TopicsNext]_<<topicVars, faults>>
             PROVE  Shape'
  OBVIOUS
<1>0. TopicsTypeOK'
  BY NextType DEF Shape
<1>1. ASSUME NEW p \in Process, NEW j \in Chat,
             \/ EnsureTopic(p, j) \/ Sync(p, j)
             \/ \E t \in DOMAIN forum : Bind(p, j, t)
      PROVE  Shape'
  BY <1>1, SetOutShape DEF Sync
<1>2. ASSUME NEW p \in Process, WalkStep(p) PROVE Shape'
  BY <1>2, DiscoverShape, CreateShape, ReadShape, BindShape, CardShape DEF WalkStep
<1>3. ASSUME NEW p \in Process, Return(p) \/ Stop(p) PROVE Shape'
  BY <1>0, <1>3, LeaveShape DEF Return, Stop
<1>4. CASE FaultElsewhere \/ UNCHANGED <<topicVars, faults>>
  <2>1. UNCHANGED topicVars
    BY <1>4 DEF FaultElsewhere
  <2> QED
    BY <1>0, <2>1 DEF topicVars, Shape, Walking, OnItsWay, OneChatEach,
                      ChatsInOrder, Active
<1> QED
  BY <1>1, <1>2, <1>3, <1>4 DEF TopicsNext

(* Once a chat has a topic, its row is not written any more.               *)
LEMMA ActiveRowsStay ==
    ASSUME Shape, TopicsNext, NEW j \in Chat, Active(j)
    PROVE  chat'[j] = chat[j]
<1> USE DEF Shape
<1>0. TopicsOK /\ chat[j].known
  BY DEF TopicsTypeOK, ChatsInOrder
<1>1. ASSUME NEW p \in Process, DiscoverChat(p) PROVE chat'[j] = chat[j]
  <2>1. chat' = chat \/ chat' = [chat EXCEPT ![walk[p].for] =
                                   [chat[walk[p].for] EXCEPT !.known = TRUE]]
    BY <1>1 DEF DiscoverChat
  <2>2. [chat[j] EXCEPT !.known = TRUE] = chat[j]
    BY <1>0 DEF TopicsOK
  <2> QED
    BY <1>0, <2>1, <2>2 DEF TopicsOK
<1>2. ASSUME NEW p \in Process, BindTopic(p) PROVE chat'[j] = chat[j]
  BY <1>0, <1>2, BindEffect DEF MayBind
<1>3. CASE UNCHANGED chat
  BY <1>3
<1>4. \/ UNCHANGED chat
      \/ \E p \in Process : DiscoverChat(p) \/ BindTopic(p)
  BY DEF TopicsNext, EnsureTopic, Sync, UpdateCard, Bind, Begin, WalkStep,
         CreateTopic, CreateTopicFails, ReadGeneration, EditCard, PostPhoto,
         PostText, RecordCard, Return, Stop, FaultElsewhere, topicVars
<1> QED
  BY <1>1, <1>2, <1>3, <1>4

(* A chat that has a topic keeps it, and no other chat gets the same one.  *)
THEOREM TopicsStayPut == TopicsSpec => ActiveStaysPut
<1> DEFINE Stays == \A j \in Chat : Active(j) =>
                      /\ chat'[j] = chat[j]
                      /\ \A k \in Chat \ {j} : chat'[k].thread # chat[j].thread
<1>1. Shape /\ [TopicsNext]_<<topicVars, faults>> => [Stays]_<<topicVars, faults>>
  <2> SUFFICES ASSUME Shape, TopicsNext PROVE Stays
    OBVIOUS
  <2>1. \A j \in Chat : Active(j) => chat'[j] = chat[j]
    BY ActiveRowsStay
  <2>2. OneChatEach'
    BY NextShape DEF Shape
  <2> QED
    BY <2>1, <2>2 DEF OneChatEach, Active
<1> QED
  BY <1>1, InitShape, NextShape, PTL DEF TopicsSpec, ActiveStaysPut

-----------------------------------------------------------------------------
(* Cards.  For the cards of a chat, a step of a process is one of four:    *)
(* it shows none, or it is a fault, or the card it shows is in its hands   *)
(* now, or the card it had is recorded.                                    *)

ShowsNone(p, j) ==
    /\ UNCHANGED faults /\ card'[j] = card[j]
    /\ p \in Recording(j) => p \in Recording(j)'
    /\ card[j].known /\ p \in Posting(j)' => p \in Posting(j)

Fails(p, j) ==
    /\ faults' = faults + 1 /\ card'[j].known = card[j].known
    /\ \/ card'[j].shown = card[j].shown
       \/ /\ card'[j].shown = card[j].shown + 1
          /\ p \notin Recording(j)
          /\ p \in Posting(j)' => p \in Posting(j)

ShowsOne(p, j) ==
    /\ UNCHANGED faults /\ card'[j].known = card[j].known
    /\ card'[j].shown = card[j].shown + 1
    /\ p \notin Recording(j) /\ p \in Recording(j)'
    /\ p \in Posting(j) /\ p \notin Posting(j)'

Records(p, j) ==
    /\ UNCHANGED faults /\ card'[j].known /\ card'[j].shown = card[j].shown
    /\ p \in Recording(j) /\ p \notin Recording(j)'
    /\ p \notin Posting(j)'

(* Sets of processes that differ in one process at most.                   *)
LEMMA OneMoves ==
    ASSUME NEW p \in Process, Others(p), NEW j
    PROVE  /\ Recording(j) \ {p} = Recording(j)' \ {p}
           /\ Posting(j) \ {p} = Posting(j)' \ {p}
           /\ Making(j) \ {p} = Making(j)' \ {p}
BY DEF Others, Recording, Posting, Making, For

LEMMA CardsStep ==
    ASSUME TopicsTypeOK, TopicsTypeOK', NEW p \in Process, Others(p),
           NEW j \in Chat, CardsOf(j),
           \/ ShowsNone(p, j) \/ Fails(p, j) \/ ShowsOne(p, j) \/ Records(p, j)
    PROVE  CardsOf(j)'
<1> DEFINE N == Cardinality(Process)
           R == Recording(j)
           S == Recording(j)'
           P == Posting(j)
           Q == Posting(j)'
<1>1. /\ IsFiniteSet(Process) /\ N \in Nat
      /\ IsFiniteSet(R) /\ IsFiniteSet(S) /\ IsFiniteSet(P) /\ IsFiniteSet(Q)
  <2>1. IsFiniteSet(R) /\ IsFiniteSet(P) /\ IsFiniteSet(Process)
    BY Finite
  <2>2. IsFiniteSet(S) /\ IsFiniteSet(Q)
    BY FS_Subset, <2>1 DEF Recording, Posting, Making
  <2> QED
    BY <2>1, <2>2, FS_CardinalityType
<1>2. R \ {p} = S \ {p} /\ P \ {p} = Q \ {p}
  BY OneMoves
<1>3. /\ faults \in Nat /\ card[j].shown \in Nat
      /\ Cardinality(R) \in Nat /\ Cardinality(S) \in Nat
      /\ Cardinality(P) \in Nat /\ Cardinality(Q) \in Nat
  BY <1>1, FS_CardinalityType DEF TopicsTypeOK, TopicsOK
<1>4. /\ ~card[j].known => card[j].shown <= faults + Cardinality(R)
      /\ card[j].known => card[j].shown + Cardinality(P) <= faults + N
  BY DEF CardsOf
<1>5. SUFFICES
        /\ ~card'[j].known => card'[j].shown <= faults' + Cardinality(S)
        /\ card'[j].known => card'[j].shown + Cardinality(Q) <= faults' + N
  BY DEF CardsOf
<1> HIDE DEF N, R, S, P, Q
<1>6. CASE ShowsNone(p, j)
  <2>1. R \subseteq S /\ (card[j].known => Q \subseteq P)
    BY <1>2, <1>6 DEF ShowsNone, R, S, P, Q
  <2>2. /\ Cardinality(R) <= Cardinality(S)
        /\ card[j].known => Cardinality(Q) <= Cardinality(P)
    BY <1>1, <2>1, NoLarger
  <2> QED
    BY <1>3, <1>4, <1>6, <1>1, <2>2 DEF ShowsNone
<1>7. CASE Fails(p, j)
  <2>1. R \subseteq S \cup {p} /\ Q \subseteq P \cup {p}
    BY <1>2
  <2>2. Cardinality(R) <= Cardinality(S) + 1 /\ Cardinality(Q) <= Cardinality(P) + 1
    BY <1>1, <2>1, OneMore
  <2>3. CASE card'[j].shown = card[j].shown
    BY <1>1, <1>3, <1>4, <1>7, <2>2, <2>3 DEF Fails
  <2>4. CASE /\ card'[j].shown = card[j].shown + 1
             /\ p \notin R /\ (p \in Q => p \in P)
    <3>1. Cardinality(R) <= Cardinality(S) /\ Cardinality(Q) <= Cardinality(P)
      BY <1>1, <1>2, <2>4, NoLarger
    <3> QED
      BY <1>1, <1>3, <1>4, <1>7, <2>4, <3>1 DEF Fails
  <2> QED
    BY <1>7, <2>3, <2>4 DEF Fails, R, P, Q
<1>8. CASE ShowsOne(p, j)
  <2>1. p \in S /\ R \subseteq S \ {p} /\ p \in P /\ Q \subseteq P \ {p}
    BY <1>2, <1>8 DEF ShowsOne, R, S, P, Q
  <2>2. Cardinality(R) + 1 <= Cardinality(S) /\ Cardinality(Q) + 1 <= Cardinality(P)
    BY <1>1, <2>1, OneLess
  <2> QED
    BY <1>1, <1>3, <1>4, <1>8, <2>2 DEF ShowsOne
<1>9. CASE Records(p, j)
  <2>1. CASE card[j].known
    <3>1. Q \subseteq P
      BY <1>2, <1>9 DEF Records, Q
    <3>2. Cardinality(Q) <= Cardinality(P)
      BY <1>1, <3>1, NoLarger
    <3> QED
      BY <1>1, <1>3, <1>4, <1>9, <2>1, <3>2 DEF Records
  <2>2. CASE ~card[j].known
    <3>1. R \cap Q = {} /\ R \subseteq Process /\ Q \subseteq Process
      <4>1. \A q \in S : q \notin Q
        BY DEF S, Q, Recording, Posting, Making, For
      <4>2. R \subseteq Process /\ Q \subseteq Process
        BY DEF R, Q, Recording, Posting, Making
      <4> QED
        BY <1>2, <1>9, <4>1, <4>2 DEF Records, Q
    <3>2. Cardinality(R) + Cardinality(Q) <= N
      BY <1>1, <3>1, TwoSorts DEF N
    <3> QED
      BY <1>1, <1>3, <1>4, <1>9, <2>2, <3>2 DEF Records
  <2> QED
    BY <2>1, <2>2
<1> QED
  BY <1>6, <1>7, <1>8, <1>9

(* Which step is which.                                                    *)
CardStep(p, j) ==
    ShowsNone(p, j) \/ Fails(p, j) \/ ShowsOne(p, j) \/ Records(p, j)

(* A process is counted by where its walk is, and for whom.                *)
LEMMA Counted ==
    ASSUME NEW p \in Process, NEW j
    PROVE  /\ p \in Recording(j) <=> walk[p].for = j /\ walk[p].at = "record"
           /\ p \in Making(j) <=> /\ walk[p].for = j /\ walk[p].op = "ensure"
                                  /\ walk[p].at \in {"discover", "create", "read", "bind"}
           /\ p \in Posting(j) <=> /\ walk[p].for = j
                                   /\ \/ p \in Making(j)
                                      \/ walk[p].at \in {"post", "text"}
           /\ p \in Recording(j)' <=> walk'[p].for = j /\ walk'[p].at = "record"
           /\ p \in Making(j)' <=> /\ walk'[p].for = j /\ walk'[p].op = "ensure"
                                   /\ walk'[p].at \in {"discover", "create", "read", "bind"}
           /\ p \in Posting(j)' <=> /\ walk'[p].for = j
                                    /\ \/ p \in Making(j)'
                                       \/ walk'[p].at \in {"post", "text"}
BY DEF Recording, Posting, Making, For

LEMMA SetOutCards ==
    ASSUME Shape, NEW p \in Process, NEW k \in Chat, NEW j \in Chat,
           \/ EnsureTopic(p, k) \/ UpdateCard(p, k)
           \/ \E t \in DOMAIN forum : Bind(p, k, t)
    PROVE  Others(p) /\ CardStep(p, j)
<1>1. TopicsOK /\ ChatsInOrder
  BY DEF Shape, TopicsTypeOK
<1>2. Idle(p) /\ Others(p) /\ UNCHANGED <<faults, card>>
  BY <1>1, BeginEffect DEF EnsureTopic, UpdateCard, Bind, Begin
<1>3. p \notin Recording(j)
  BY <1>2, Counted DEF Idle
<1>4. card[j].known => p \notin Posting(j)'
  <2>1. CASE EnsureTopic(p, k)
    BY <1>1, <2>1, BeginEffect, Counted DEF EnsureTopic, ChatsInOrder
  <2>2. CASE UpdateCard(p, k)
    BY <1>1, <2>2, BeginEffect, Counted DEF UpdateCard
  <2>3. CASE \E t \in DOMAIN forum : Bind(p, k, t)
    BY <1>1, <2>3, BeginEffect, Counted DEF Bind
  <2> QED
    BY <2>1, <2>2, <2>3
<1> QED
  BY <1>2, <1>3, <1>4 DEF CardStep, ShowsNone

LEMMA WalkCards ==
    ASSUME Shape, NEW p \in Process, NEW j \in Chat, WalkStep(p)
    PROVE  Others(p) /\ CardStep(p, j)
<1>1. TopicsTypeOK /\ TopicsOK /\ OnItsWay(p)
  BY DEF Shape, TopicsTypeOK, Walking
<1> DEFINE Stays == p \in Posting(j)' => p \in Posting(j)
           Spent == faults' = faults + 1
<1>2. CASE DiscoverChat(p)
  <2>1. walk[p].at = "discover" /\ card' = card /\ (Spent \/ UNCHANGED faults)
    BY <1>2 DEF DiscoverChat, Fault
  <2>2. \/ walk[p].op = "ensure" /\ Go(p, "create")
        \/ walk[p].op # "ensure" /\ (Go(p, "read") \/ Go(p, "failed"))
    BY <1>2 DEF DiscoverChat
  <2> QED
    BY <1>1, <2>1, <2>2, GoEffect, Counted DEF CardStep, ShowsNone, Fails
<1>3. CASE CreateTopic(p)
  <2>1. walk[p].at = "create" /\ UNCHANGED <<card, faults>>
    BY <1>3 DEF CreateTopic
  <2> QED
    BY <1>1, <1>3, <2>1, CreateEffect, Counted DEF CardStep, ShowsNone
<1>4. CASE CreateTopicFails(p)
  <2>1. walk[p].at = "create" /\ UNCHANGED card /\ Spent /\ Go(p, "failed")
    BY <1>4 DEF CreateTopicFails, Fault
  <2> QED
    BY <1>1, <2>1, GoEffect DEF CardStep, Fails
<1>5. CASE ReadGeneration(p)
  <2>1. walk[p].at = "read" /\ UNCHANGED <<card, faults>>
    BY <1>5 DEF ReadGeneration
  <2> QED
    BY <1>1, <1>5, <2>1, ReadEffect, Counted DEF CardStep, ShowsNone
<1>6. CASE BindTopic(p)
  <2>1. /\ walk[p].at = "bind" /\ UNCHANGED card /\ (Spent \/ UNCHANGED faults)
    BY <1>6 DEF BindTopic, Fault
  <2>2. \/ walk[p].op = "ensure" /\ Go(p, "post")
        \/ Go(p, "bound") \/ Go(p, "failed")
    BY <1>6 DEF BindTopic
  <2> QED
    BY <1>1, <2>1, <2>2, GoEffect, Counted DEF CardStep, ShowsNone, Fails
<1>7. CASE EditCard(p)
  <2>1. /\ walk[p].at = "edit" /\ UNCHANGED card
        /\ \/ Go(p, "bound") /\ UNCHANGED faults
           \/ Go(p, "post") /\ Spent
    BY <1>7 DEF EditCard, Fault
  <2> QED
    BY <1>1, <2>1, GoEffect, Counted DEF CardStep, ShowsNone, Fails
<1>8. CASE PostPhoto(p) \/ PostText(p)
  <2>1. walk[p].at \in {"post", "text"} /\ walk[p].for \in Chat
    BY <1>1, <1>8 DEF PostPhoto, PostText, TopicsOK
  <2>2. \/ Shows(walk[p].for) /\ Go(p, "record") /\ UNCHANGED faults
        \/ UNCHANGED <<card, faults>> /\ Go(p, "text") /\ walk[p].at = "post"
        \/ /\ Spent /\ (Go(p, "text") \/ Go(p, "bound"))
           /\ card' = card \/ Shows(walk[p].for)
    BY <1>8 DEF PostPhoto, PostText, Fault, Shows
  <2>3. Others(p) /\ walk'[p].for = walk[p].for /\ walk'[p].op = walk[p].op
    BY <1>1, <2>2, GoEffect
  <2>4. CASE Shows(walk[p].for) /\ Go(p, "record") /\ UNCHANGED faults
    BY <1>1, <2>1, <2>3, <2>4, GoEffect, ShowsType, Counted
       DEF CardStep, ShowsNone, ShowsOne
  <2>5. CASE UNCHANGED <<card, faults>> /\ Go(p, "text") /\ walk[p].at = "post"
    BY <1>1, <2>3, <2>5, GoEffect, Counted DEF CardStep, ShowsNone
  <2>6. CASE /\ Spent /\ (Go(p, "text") \/ Go(p, "bound"))
             /\ card' = card \/ Shows(walk[p].for)
    BY <1>1, <2>1, <2>3, <2>6, GoEffect, ShowsType, Counted DEF CardStep, Fails
  <2> QED
    BY <2>2, <2>3, <2>4, <2>5, <2>6
<1>9. CASE RecordCard(p)
  <2>1. walk[p].at = "record" /\ walk[p].for \in Chat /\ Go(p, "bound")
    BY <1>1, <1>9 DEF RecordCard, TopicsOK
  <2>2. \/ Notes(walk[p].for) /\ UNCHANGED faults
        \/ Spent /\ UNCHANGED card
    BY <1>9 DEF RecordCard, Fault, Notes
  <2>3. CASE Notes(walk[p].for) /\ UNCHANGED faults
    <3>1. /\ Others(p) /\ walk'[p].for = walk[p].for /\ walk'[p].op = walk[p].op
          /\ walk'[p].at = "bound"
      BY <1>1, <2>1, GoEffect
    <3>2. CASE j = walk[p].for
      BY <1>1, <2>1, <2>3, <3>1, <3>2, NotesType, Counted DEF CardStep, Records
    <3>3. CASE j # walk[p].for
      BY <1>1, <2>1, <2>3, <3>1, <3>3, NotesType, Counted DEF CardStep, ShowsNone
    <3> QED
      BY <3>2, <3>3
  <2>4. CASE Spent /\ UNCHANGED card
    BY <1>1, <2>1, <2>4, GoEffect DEF CardStep, Fails
  <2> QED
    BY <2>2, <2>3, <2>4
<1> QED
  BY <1>2, <1>3, <1>4, <1>5, <1>6, <1>7, <1>8, <1>9 DEF WalkStep

LEMMA LeaveCards ==
    ASSUME Shape, NEW p \in Process, NEW j \in Chat, Return(p) \/ Stop(p)
    PROVE  Others(p) /\ CardStep(p, j)
<1>1. TopicsOK /\ Leave(p) /\ UNCHANGED card
  BY DEF Shape, TopicsTypeOK, Return, Stop
<1>2. Others(p) /\ walk'[p].at = "rest"
  BY <1>1, LeaveEffect DEF Resting
<1>3. p \notin Posting(j)' /\ p \notin Making(j)'
  BY <1>2, Counted
<1>4. CASE Return(p)
  BY <1>1, <1>2, <1>3, <1>4, Counted DEF Return, Arrived, CardStep, ShowsNone
<1>5. CASE Stop(p)
  BY <1>1, <1>2, <1>5 DEF Stop, Fault, CardStep, Fails
<1> QED
  BY <1>4, <1>5

LEMMA NextCards ==
    ASSUME Shape, CardCount, [TopicsNext]_<<topicVars, faults>>
    PROVE  CardCount'
<1> SUFFICES ASSUME NEW j \in Chat PROVE CardsOf(j)'
  BY DEF CardCount
<1>1. TopicsTypeOK /\ TopicsTypeOK' /\ CardsOf(j)
  BY NextType DEF Shape, CardCount
<1>2. ASSUME NEW p \in Process, Others(p) /\ CardStep(p, j) PROVE CardsOf(j)'
  BY <1>1, <1>2, CardsStep DEF CardStep
<1>3. CASE \E p \in Process, k \in Chat :
             \/ EnsureTopic(p, k) \/ Sync(p, k)
             \/ \E t \in DOMAIN forum : Bind(p, k, t)
  BY <1>2, <1>3, SetOutCards DEF Sync
<1>4. CASE \E p \in Process : WalkStep(p)
  BY <1>2, <1>4, WalkCards
<1>5. CASE \E p \in Process : Return(p) \/ Stop(p)
  BY <1>2, <1>5, LeaveCards
<1>6. CASE FaultElsewhere
  <2>1. PICK p \in Process : TRUE
    BY TopicsAssumption
  <2>2. Others(p) /\ Fails(p, j)
    BY <1>6 DEF FaultElsewhere, Fault, topicVars, Others, Fails
  <2> QED
    BY <1>2, <2>2 DEF CardStep
<1>7. CASE UNCHANGED <<topicVars, faults>>
  BY <1>1, <1>7 DEF topicVars, CardsOf, Recording, Posting, Making, For
<1> QED
  BY <1>3, <1>4, <1>5, <1>6, <1>7 DEF TopicsNext

LEMMA InitCards == TopicsInit => CardCount
<1> SUFFICES ASSUME TopicsInit, NEW j \in Chat PROVE CardsOf(j)
  BY DEF CardCount
<1>1. Posting(j) = {} /\ Recording(j) = {}
  BY DEF TopicsInit, Resting, Posting, Recording, Making, For
<1>2. Cardinality(Process) \in Nat \ {0}
  BY InitType, Finite
<1>3. Cardinality({}) = 0
  BY FS_EmptySet
<1>4. faults = 0 /\ card[j].shown = IF card[j].known THEN 1 ELSE 0
  BY DEF TopicsInit, InFirst
<1> QED
  BY <1>1, <1>2, <1>3, <1>4 DEF CardsOf

LEMMA CardsBounded == TopicsTypeOK /\ CardCount => CardsAreAccountedFor
<1> SUFFICES ASSUME TopicsTypeOK, CardCount, NEW j \in Chat
             PROVE  card[j].shown <= faults + Cardinality(Process)
  BY DEF CardsAreAccountedFor
<1>1. /\ Cardinality(Posting(j)) \in Nat
      /\ Cardinality(Recording(j)) <= Cardinality(Process)
      /\ Cardinality(Recording(j)) \in Nat /\ Cardinality(Process) \in Nat
  BY Finite, NoLarger DEF Recording
<1>2. faults \in Nat /\ card[j].shown \in Nat
  BY DEF TopicsTypeOK, TopicsOK
<1> QED
  BY <1>1, <1>2 DEF CardCount, CardsOf

-----------------------------------------------------------------------------
(* Topics.  For the topics of a chat, a step of a process is one of four:  *)
(* it leaves none empty, or it is a fault, or the process gives up the one *)
(* it was making, or the chat gets its topic.                              *)

LeavesNone(p, j) ==
    /\ faults' \in {faults, faults + 1}
    /\ Active(j)' <=> Active(j)
    /\ Abandoned(j)' \subseteq Abandoned(j)
    /\ Active(j) /\ p \in Making(j)' => p \in Making(j)
    /\ ~Active(j) /\ p \in Unwritten(j)' => p \in Unwritten(j)

LosesOne(p, j) ==
    /\ faults' = faults + 1
    /\ Active(j)' <=> Active(j)
    /\ Active(j) /\ p \in Making(j)' => p \in Making(j)
    /\ \/ /\ \E t \in Nat : Abandoned(j)' \subseteq Abandoned(j) \cup {t}
          /\ p \in Unwritten(j)' => p \in Unwritten(j)
       \/ Abandoned(j)' \subseteq Abandoned(j)

GivesUp(p, j) ==
    /\ UNCHANGED faults
    /\ Active(j)' <=> Active(j)
    /\ \E t \in Nat : Abandoned(j)' \subseteq Abandoned(j) \cup {t}
    /\ p \in Making(j) /\ p \notin Making(j)'
    /\ ~Active(j) => p \in Unwritten(j)

GetsTopic(p, j) ==
    /\ UNCHANGED faults
    /\ ~Active(j) /\ Active(j)'
    /\ Abandoned(j)' \subseteq Abandoned(j)
    /\ p \notin Making(j)'

TopicStep(p, j) ==
    LeavesNone(p, j) \/ LosesOne(p, j) \/ GivesUp(p, j) \/ GetsTopic(p, j)

LEMMA UnwrittenMoves ==
    ASSUME NEW p \in Process, Others(p), NEW j, chat[j].known => chat'[j].known
    PROVE  /\ Unwritten(j)' \ {p} \subseteq Unwritten(j)
           /\ Unwritten(j)' \subseteq Making(j)'
           /\ Unwritten(j) \subseteq Making(j)
BY DEF Others, Unwritten, Making, For

LEMMA TopicsStep ==
    ASSUME TopicsTypeOK, TopicsTypeOK', NEW p \in Process, Others(p),
           NEW j \in Chat, chat[j].known => chat'[j].known,
           TopicsOf(j), TopicStep(p, j)
    PROVE  TopicsOf(j)'
<1> DEFINE N == Cardinality(Process)
           A == Abandoned(j)
           B == Abandoned(j)'
           M == Making(j)
           L == Making(j)'
           U == Unwritten(j)
           V == Unwritten(j)'
<1>1. /\ IsFiniteSet(Process) /\ N \in Nat \ {0}
      /\ IsFiniteSet(A) /\ IsFiniteSet(M) /\ IsFiniteSet(U)
  BY Finite
<1>2. IsFiniteSet(L) /\ IsFiniteSet(V) /\ L \subseteq Process
  BY <1>1, FS_Subset DEF Making, Unwritten
<1>3. M \ {p} = L \ {p} /\ V \ {p} \subseteq U /\ V \subseteq L /\ U \subseteq M
  BY OneMoves, UnwrittenMoves
<1>4. /\ \A t \in Nat : B \subseteq A \cup {t} => IsFiniteSet(B)
      /\ B \subseteq A => IsFiniteSet(B)
  BY <1>1, OneMore, NoLarger
<1>5. IsFiniteSet(B)
  BY <1>4 DEF TopicStep, LeavesNone, LosesOne, GivesUp, GetsTopic
<1>6. /\ faults \in Nat
      /\ Cardinality(A) \in Nat /\ Cardinality(B) \in Nat
      /\ Cardinality(M) \in Nat /\ Cardinality(L) \in Nat
      /\ Cardinality(U) \in Nat /\ Cardinality(V) \in Nat
  BY <1>1, <1>2, <1>5, FS_CardinalityType DEF TopicsTypeOK
<1>7. /\ ~Active(j) => Cardinality(A) + Cardinality(U) <= faults
      /\ Active(j) => Cardinality(A) + Cardinality(M) <= faults + N - 1
  BY DEF TopicsOf
<1>8. SUFFICES
        /\ ~Active(j)' => Cardinality(B) + Cardinality(V) <= faults'
        /\ Active(j)' => Cardinality(B) + Cardinality(L) <= faults' + N - 1
  BY DEF TopicsOf
<1>9. CASE LeavesNone(p, j)
  <2>1. /\ B \subseteq A
        /\ Active(j) => L \subseteq M
        /\ ~Active(j) => V \subseteq U
    BY <1>3, <1>9 DEF LeavesNone
  <2> HIDE DEF A, B, M, L, U, V, N
  <2>2. /\ Cardinality(B) <= Cardinality(A)
        /\ Active(j) => Cardinality(L) <= Cardinality(M)
        /\ ~Active(j) => Cardinality(V) <= Cardinality(U)
    BY <1>1, <2>1, NoLarger
  <2> QED
    BY <1>1, <1>6, <1>7, <1>9, <2>2 DEF LeavesNone
<1>10. CASE LosesOne(p, j)
  <2>1. Active(j) => L \subseteq M
    BY <1>3, <1>10 DEF LosesOne
  <2>2. \/ (\E t \in Nat : B \subseteq A \cup {t}) /\ V \subseteq U
        \/ B \subseteq A /\ V \subseteq U \cup {p}
    BY <1>3, <1>10 DEF LosesOne
  <2> HIDE DEF A, B, M, L, U, V, N
  <2>3. Active(j) => Cardinality(L) <= Cardinality(M)
    BY <1>1, <2>1, NoLarger
  <2>4. \/ Cardinality(B) <= Cardinality(A) + 1 /\ Cardinality(V) <= Cardinality(U)
        \/ Cardinality(B) <= Cardinality(A) /\ Cardinality(V) <= Cardinality(U) + 1
    BY <1>1, <2>2, NoLarger, OneMore
  <2> QED
    BY <1>1, <1>6, <1>7, <1>10, <2>3, <2>4 DEF LosesOne
<1>11. CASE GivesUp(p, j)
  <2>1. /\ \E t \in Nat : B \subseteq A \cup {t}
        /\ p \in M /\ L \subseteq M \ {p}
        /\ ~Active(j) => p \in U /\ V \subseteq U \ {p}
    BY <1>3, <1>11 DEF GivesUp
  <2> HIDE DEF A, B, M, L, U, V, N
  <2>2. /\ Cardinality(B) <= Cardinality(A) + 1
        /\ Cardinality(L) + 1 <= Cardinality(M)
        /\ ~Active(j) => Cardinality(V) + 1 <= Cardinality(U)
    BY <1>1, <2>1, OneMore, OneLess
  <2> QED
    BY <1>1, <1>6, <1>7, <1>11, <2>2 DEF GivesUp
<1>12. CASE GetsTopic(p, j)
  <2>1. B \subseteq A /\ L \subseteq Process \ {p}
    BY <1>2, <1>12 DEF GetsTopic
  <2> HIDE DEF A, B, M, L, U, V
  <2>2. Cardinality(B) <= Cardinality(A) /\ Cardinality(L) + 1 <= N
    BY <1>1, <2>1, NoLarger, OneLess
  <2> HIDE DEF N
  <2> QED
    BY <1>1, <1>6, <1>7, <1>12, <2>2 DEF GetsTopic
<1> QED
  BY <1>9, <1>10, <1>11, <1>12 DEF TopicStep

(* A topic is left empty by the process that was to bind it.               *)
HasInHand(p, t) == /\ walk[p].op = "ensure"
                   /\ walk[p].at \in {"read", "bind"}
                   /\ walk[p].thread = t

LEMMA LeftEmpty ==
    ASSUME Shape, NEW p \in Process, Others(p), Onward,
           \A k \in Chat : Active(k) => chat'[k].thread = chat[k].thread,
           NEW j, NEW t \in DOMAIN forum, t \in Abandoned(j)', t \notin Abandoned(j)
    PROVE  /\ p \in Making(j) /\ HasInHand(p, t)
           /\ ~HasInHand(p, t)' /\ BoundTo(t)' = {}
<1>1. TopicsOK /\ t # 0 /\ forum[t] = j /\ BoundTo(t)' = {}
  BY DEF Shape, TopicsTypeOK, TopicsOK, Abandoned, Onward
<1>2. BoundTo(t) = {}
  BY <1>1 DEF BoundTo, Active
<1>3. PICK q \in Process : HasInHand(q, t)
  BY <1>1, <1>2 DEF Abandoned, HasInHand
<1>4. ~HasInHand(q, t)'
  BY DEF Abandoned, HasInHand
<1>5. q = p
  BY <1>3, <1>4 DEF Others, HasInHand
<1>6. walk[p].for = j
  BY <1>1, <1>3, <1>5 DEF Shape, Walking, OnItsWay, HasInHand
<1> QED
  BY <1>1, <1>3, <1>4, <1>5, <1>6 DEF HasInHand, Making, For

(* The rows of the chats that have a topic, and what is known, are kept.   *)
Kept == /\ Onward
        /\ \A k \in Chat : /\ Active(k) => chat'[k].thread = chat[k].thread
                           /\ chat[k].known => chat'[k].known

LEMMA NextKept ==
    ASSUME Shape, TopicsNext
    PROVE  Kept
<1>1. TopicsOK /\ TopicsOK'
  BY NextType DEF Shape, TopicsTypeOK
<1>2. \A k \in Chat : Active(k) => chat'[k] = chat[k]
  BY ActiveRowsStay
<1>3. \A k \in Chat : chat[k].known => chat'[k].known
  <2>1. ASSUME NEW p \in Process, DiscoverChat(p)
        PROVE  \A k \in Chat : chat[k].known => chat'[k].known
    BY <1>1, <2>1, DiscoverEffect
  <2>2. ASSUME NEW p \in Process, BindTopic(p)
        PROVE  \A k \in Chat : chat[k].known => chat'[k].known
    BY <1>1, <2>2, BindEffect
  <2>3. \/ UNCHANGED chat
        \/ \E p \in Process : DiscoverChat(p) \/ BindTopic(p)
    BY DEF TopicsNext, EnsureTopic, Sync, UpdateCard, Bind, Begin, WalkStep,
           CreateTopic, CreateTopicFails, ReadGeneration, EditCard, PostPhoto,
           PostText, RecordCard, Return, Stop, FaultElsewhere, topicVars
  <2> QED
    BY <2>1, <2>2, <2>3
<1>4. /\ DOMAIN forum \subseteq DOMAIN forum'
      /\ \A t \in DOMAIN forum : forum'[t] = forum[t]
  <2>1. ASSUME NEW p \in Process, CreateTopic(p) \/ CreateTopicFails(p)
        PROVE  UNCHANGED forum \/ (MakeTopic(p) /\ ~Idle(p))
    BY <2>1 DEF CreateTopic, CreateTopicFails, Idle
  <2>2. \/ UNCHANGED forum
        \/ \E p \in Process : CreateTopic(p) \/ CreateTopicFails(p)
    BY DEF TopicsNext, EnsureTopic, Sync, UpdateCard, Bind, Begin, WalkStep,
           DiscoverChat, ReadGeneration, BindTopic, EditCard, PostPhoto,
           PostText, RecordCard, Return, Stop, FaultElsewhere, topicVars
  <2> QED
    BY <1>1, <2>1, <2>2, MakeTopicType
<1> QED
  BY <1>2, <1>3, <1>4 DEF Kept, Onward, Active

(* Steps that make no topic, and after which the process still has in hand *)
(* what it had, leave none empty.                                          *)
LEMMA NoneEmptied ==
    ASSUME Shape, NEW p \in Process, Others(p), Kept, UNCHANGED forum, NEW j,
           NEW t, t = walk[p].thread
    PROVE  /\ Abandoned(j)' \subseteq Abandoned(j) \cup {t}
           /\ \/ p \notin Making(j)
              \/ walk[p].at \notin {"read", "bind"}
              \/ HasInHand(p, t)'
              \/ BoundTo(t)' # {}
              => Abandoned(j)' \subseteq Abandoned(j)
<1>1. Abandoned(j)' \subseteq DOMAIN forum
  BY DEF Abandoned
<1>2. ASSUME NEW s \in Abandoned(j)', s \notin Abandoned(j)
      PROVE  /\ p \in Making(j) /\ HasInHand(p, s)
             /\ ~HasInHand(p, s)' /\ BoundTo(s)' = {}
  BY <1>1, <1>2, LeftEmpty DEF Kept
<1> QED
  BY <1>2 DEF HasInHand

LEMMA SetOutTopics ==
    ASSUME Shape, Kept, NEW p \in Process, NEW k \in Chat, NEW j \in Chat,
           \/ EnsureTopic(p, k) \/ UpdateCard(p, k)
           \/ \E t \in DOMAIN forum : Bind(p, k, t)
    PROVE  Others(p) /\ TopicStep(p, j)
<1>1. TopicsTypeOK /\ TopicsOK
  BY DEF Shape, TopicsTypeOK
<1>2. Idle(p) /\ Others(p) /\ UNCHANGED <<chat, forum, faults>>
  BY <1>1, BeginEffect DEF EnsureTopic, UpdateCard, Bind, Begin
<1>3. Abandoned(j)' \subseteq Abandoned(j)
  BY <1>2, NoneEmptied DEF Idle
<1>4. Active(j)' <=> Active(j)
  BY <1>2 DEF Active
<1>5. /\ Active(j) => p \notin Making(j)'
      /\ p \in Making(j)' => walk'[p].at = "discover"
  <2>1. CASE EnsureTopic(p, k)
    BY <1>1, <2>1, BeginEffect, Counted DEF EnsureTopic
  <2>2. CASE UpdateCard(p, k)
    BY <1>1, <2>2, BeginEffect, Counted DEF UpdateCard
  <2>3. CASE \E t \in DOMAIN forum : Bind(p, k, t)
    BY <1>1, <2>3, BeginEffect, Counted DEF Bind
  <2> QED
    BY <2>1, <2>2, <2>3
<1>6. p \notin Unwritten(j)'
  BY <1>5 DEF Unwritten
<1> QED
  BY <1>2, <1>3, <1>4, <1>5, <1>6 DEF TopicStep, LeavesNone

LEMMA CreateTopics ==
    ASSUME Shape, Kept, NEW p \in Process, NEW j \in Chat,
           CreateTopic(p) \/ CreateTopicFails(p)
    PROVE  Others(p) /\ TopicStep(p, j)
<1>1. /\ TopicsTypeOK /\ TopicsOK /\ OnItsWay(p)
      /\ walk[p].at = "create" /\ walk[p].op = "ensure" /\ ~Idle(p)
      /\ Len(forum) + 1 \in Nat /\ UNCHANGED chat
  BY DEF Shape, TopicsTypeOK, TopicsOK, Walking, OnItsWay, CreateTopic,
         CreateTopicFails, Idle
<1>2. /\ Others(p)
      /\ walk'[p].for = walk[p].for /\ walk'[p].op = walk[p].op
      /\ walk'[p].at # "discover"
      /\ CreateTopicFails(p) => walk'[p].at = "failed"
      /\ CreateTopic(p) => walk'[p].at = "read" /\ walk'[p].thread = Len(forum) + 1
  BY <1>1, CreateEffect, GoEffect DEF CreateTopicFails
<1>3. /\ p \in Making(j)' => p \in Making(j)
      /\ p \in Unwritten(j)' => p \in Unwritten(j)
  BY <1>1, <1>2, Counted DEF Unwritten
<1>4. Abandoned(j)' \subseteq Abandoned(j) \cup {Len(forum) + 1}
  <2>1. DOMAIN forum' \subseteq DOMAIN forum \cup {Len(forum) + 1}
    BY <1>1, MakeTopicType DEF CreateTopic, CreateTopicFails
  <2>2. ASSUME NEW t \in DOMAIN forum, t \in Abandoned(j)' PROVE t \in Abandoned(j)
    BY <1>1, <1>2, <2>2, LeftEmpty DEF Kept, HasInHand
  <2> QED
    BY <2>1, <2>2 DEF Abandoned
<1>5. CASE CreateTopic(p)
  <2>1. Len(forum) + 1 \notin Abandoned(j)'
    BY <1>1, <1>2, <1>5 DEF Abandoned
  <2>2. UNCHANGED faults
    BY <1>5 DEF CreateTopic
  <2> QED
    BY <1>1, <1>2, <1>3, <1>4, <2>1, <2>2 DEF TopicStep, LeavesNone, Active
<1>6. CASE CreateTopicFails(p)
  BY <1>1, <1>2, <1>3, <1>4, <1>6
     DEF TopicStep, LosesOne, Active, CreateTopicFails, Fault
<1> QED
  BY <1>2, <1>5, <1>6

LEMMA DiscoverTopics ==
    ASSUME Shape, Kept, NEW p \in Process, NEW j \in Chat, DiscoverChat(p)
    PROVE  Others(p) /\ TopicStep(p, j)
<1>1. /\ TopicsTypeOK /\ TopicsOK /\ walk[p].at = "discover" /\ UNCHANGED forum
  BY DEF Shape, TopicsTypeOK, DiscoverChat
<1>2. /\ Others(p)
      /\ walk'[p].for = walk[p].for /\ walk'[p].op = walk[p].op
      /\ walk'[p].op = "ensure" => walk'[p].at = "create"
  BY <1>1, GoEffect DEF DiscoverChat
<1>3. p \in Making(j)' => p \in Making(j)
  BY <1>1, <1>2, Counted
<1>4. Abandoned(j)' \subseteq Abandoned(j)
  BY <1>1, <1>2, NoneEmptied
<1>5. Active(j)' <=> Active(j)
  BY <1>1, DiscoverEffect DEF Active
<1>6. CASE Fault
  BY <1>2, <1>3, <1>4, <1>5, <1>6 DEF TopicStep, LosesOne, Fault
<1>7. CASE UNCHANGED faults
  <2>1. j = walk[p].for => p \notin Unwritten(j)'
    BY <1>1, <1>7, DiscoverEffect DEF Unwritten, Fault, TopicsTypeOK
  <2>2. j # walk[p].for => p \notin Unwritten(j)'
    BY <1>2, Counted DEF Unwritten
  <2> QED
    BY <1>2, <1>3, <1>4, <1>5, <1>7, <2>1, <2>2 DEF TopicStep, LeavesNone
<1> QED
  BY <1>1, <1>6, <1>7, DiscoverEffect

LEMMA ReadTopics ==
    ASSUME Shape, Kept, NEW p \in Process, NEW j \in Chat, ReadGeneration(p)
    PROVE  Others(p) /\ TopicStep(p, j)
<1>1. /\ TopicsTypeOK /\ TopicsOK /\ walk[p].at = "read"
      /\ UNCHANGED <<chat, forum, faults>>
  BY DEF Shape, TopicsTypeOK, ReadGeneration
<1>2. /\ Others(p)
      /\ walk'[p].for = walk[p].for /\ walk'[p].op = walk[p].op
      /\ walk'[p].at = "bind" /\ walk'[p].thread = walk[p].thread
  BY <1>1, ReadEffect
<1>3. /\ p \in Making(j)' => p \in Making(j)
      /\ p \in Unwritten(j)' => p \in Unwritten(j)
  BY <1>1, <1>2, Counted DEF Unwritten
<1>4. Abandoned(j)' \subseteq Abandoned(j)
  BY <1>1, <1>2, NoneEmptied, Counted DEF HasInHand
<1> QED
  BY <1>1, <1>2, <1>3, <1>4 DEF TopicStep, LeavesNone, Active

(* Steps after which a process that was making a topic has bound it, or    *)
(* given it up.                                                            *)
LEMMA BindTopics ==
    ASSUME Shape, Kept, NEW p \in Process, NEW j \in Chat, BindTopic(p)
    PROVE  Others(p) /\ TopicStep(p, j)
<1> PICK t : t = walk[p].thread
  OBVIOUS
<1> DEFINE k == walk[p].for
           g == walk[p].gen
           b == IF walk[p].op = "ensure" THEN "post" ELSE "bound"
<1>1. /\ TopicsTypeOK /\ TopicsOK /\ walk[p].at = "bind" /\ UNCHANGED forum
      /\ OnItsWay(p) /\ t \in Nat
  BY BindEffect DEF Shape, TopicsTypeOK, Walking, BindTopic
<1>2. /\ k \in Chat
      /\ \A i \in Chat \ {k} : chat'[i] = chat[i]
      /\ \/ /\ Go(p, b) /\ UNCHANGED faults
            /\ MayBind(k, t, g)
            /\ chat'[k].known /\ chat'[k].thread = t /\ chat'[k].gen = g
         \/ /\ Go(p, b)
            /\ UNCHANGED <<chat, faults>>
            /\ SameBinding(k, t, g)
         \/ /\ Go(p, "failed")
            /\ UNCHANGED chat
            /\ Fault \/ (~MayBind(k, t, g) /\ UNCHANGED faults)
  BY <1>1, BindEffect
<1>3. /\ Others(p) /\ walk'[p].for = k /\ walk'[p].op = walk[p].op
      /\ walk'[p].at \in {"post", "bound", "failed"}
  BY <1>1, <1>2, GoEffect
<1>4. p \notin Making(j)' /\ p \notin Unwritten(j)'
  BY <1>3, Counted DEF Unwritten
<1>5. /\ Abandoned(j)' \subseteq Abandoned(j) \cup {t}
      /\ p \notin Making(j) \/ BoundTo(t)' # {} => Abandoned(j)' \subseteq Abandoned(j)
  BY <1>1, <1>3, NoneEmptied
<1>6. CASE MayBind(k, t, g) /\ chat'[k].thread = t /\ UNCHANGED faults
  <2>1. k \in BoundTo(t)'
    BY <1>2, <1>6 DEF BoundTo
  <2>2. Abandoned(j)' \subseteq Abandoned(j)
    BY <1>5, <2>1
  <2>3. CASE Active(j)' <=> Active(j)
    BY <1>3, <1>4, <1>6, <2>2, <2>3 DEF TopicStep, LeavesNone
  <2>4. CASE ~(Active(j)' <=> Active(j))
    BY <1>2, <1>3, <1>4, <1>6, <2>2, <2>4 DEF TopicStep, GetsTopic, Kept, Onward
  <2> QED
    BY <2>3, <2>4
<1>7. CASE UNCHANGED <<chat, faults>> /\ SameBinding(k, t, g)
  <2>1. k \in BoundTo(t)'
    BY <1>2, <1>7 DEF BoundTo, SameBinding
  <2> QED
    BY <1>3, <1>4, <1>5, <1>7, <2>1 DEF TopicStep, LeavesNone, Active
<1>8. CASE UNCHANGED chat /\ Fault
  BY <1>1, <1>3, <1>4, <1>5, <1>8 DEF TopicStep, LosesOne, Active, Fault
<1>9. CASE UNCHANGED <<chat, faults>> /\ ~MayBind(k, t, g)
  <2>1. CASE p \notin Making(j) \/ BoundTo(t) # {}
    <3>1. Abandoned(j)' \subseteq Abandoned(j)
      BY <1>5, <1>9, <2>1 DEF BoundTo
    <3> QED
      BY <1>3, <1>4, <1>9, <3>1 DEF TopicStep, LeavesNone, Active
  <2>2. CASE p \in Making(j) /\ BoundTo(t) = {}
    <3>1. k = j /\ walk[p].op = "ensure"
      BY <2>2, Counted
    <3>2. ~Active(j) => ~chat[j].known
      BY <1>1, <1>9, <2>2, <3>1 DEF OnItsWay, MayBind, Shape, ChatsInOrder
    <3>3. ~Active(j) => p \in Unwritten(j)
      BY <1>1, <2>2, <3>2 DEF Unwritten
    <3> QED
      BY <1>1, <1>3, <1>4, <1>5, <1>9, <2>2, <3>3 DEF TopicStep, GivesUp, Active
  <2> QED
    BY <2>1, <2>2
<1> QED
  BY <1>2, <1>6, <1>7, <1>8, <1>9

LEMMA CardTopics ==
    ASSUME Shape, Kept, NEW p \in Process, NEW j \in Chat,
           EditCard(p) \/ PostPhoto(p) \/ PostText(p) \/ RecordCard(p)
    PROVE  Others(p) /\ TopicStep(p, j)
<1>1. /\ TopicsTypeOK /\ TopicsOK
      /\ walk[p].at \in {"edit", "post", "text", "record"}
      /\ UNCHANGED <<chat, forum>>
      /\ UNCHANGED faults \/ faults' = faults + 1
  BY DEF Shape, TopicsTypeOK, EditCard, PostPhoto, PostText, RecordCard, Fault
<1>2. PICK place \in {"post", "text", "record", "bound"} : Go(p, place)
  BY DEF EditCard, PostPhoto, PostText, RecordCard
<1>3. Others(p) /\ walk'[p].at = place
  BY <1>1, <1>2, GoEffect
<1>4. p \notin Making(j)' /\ p \notin Unwritten(j)'
  BY <1>3, Counted DEF Unwritten
<1>5. Abandoned(j)' \subseteq Abandoned(j)
  BY <1>1, <1>3, NoneEmptied
<1> QED
  BY <1>1, <1>3, <1>4, <1>5 DEF TopicStep, LeavesNone, Active

LEMMA LeaveTopics ==
    ASSUME Shape, Kept, NEW p \in Process, NEW j \in Chat, Return(p) \/ Stop(p)
    PROVE  Others(p) /\ TopicStep(p, j)
<1>1. TopicsTypeOK /\ TopicsOK /\ Leave(p) /\ UNCHANGED <<chat, forum>>
  BY DEF Shape, TopicsTypeOK, Return, Stop
<1>2. Others(p) /\ walk'[p].at = "rest"
  BY <1>1, LeaveEffect DEF Resting
<1>3. p \notin Making(j)' /\ p \notin Unwritten(j)'
  BY <1>2, Counted DEF Unwritten
<1>4. CASE Return(p)
  <2>1. Abandoned(j)' \subseteq Abandoned(j)
    BY <1>1, <1>2, <1>4, NoneEmptied DEF Return, Arrived
  <2> QED
    BY <1>1, <1>2, <1>3, <1>4, <2>1 DEF Return, TopicStep, LeavesNone, Active
<1>5. CASE Stop(p)
  <2>1. walk[p].thread \in Nat
    BY <1>1 DEF TopicsOK, Walk
  <2>2. Abandoned(j)' \subseteq Abandoned(j) \cup {walk[p].thread}
    BY <1>1, <1>2, NoneEmptied
  <2> QED
    BY <1>1, <1>2, <1>3, <1>5, <2>1, <2>2 DEF Stop, Fault, TopicStep, LosesOne, Active
<1> QED
  BY <1>4, <1>5

LEMMA NextTopics ==
    ASSUME Shape, TopicCount, [TopicsNext]_<<topicVars, faults>>
    PROVE  TopicCount'
<1> SUFFICES ASSUME NEW j \in Chat PROVE TopicsOf(j)'
  BY DEF TopicCount
<1>1. TopicsTypeOK /\ TopicsTypeOK' /\ TopicsOf(j)
  BY NextType DEF Shape, TopicCount
<1>2. ASSUME TopicsNext PROVE Kept
  BY <1>2, NextKept
<1>3. ASSUME TopicsNext, NEW p \in Process, Others(p) /\ TopicStep(p, j)
      PROVE  TopicsOf(j)'
  BY <1>1, <1>2, <1>3, TopicsStep DEF Kept
<1>4. CASE TopicsNext /\ \E p \in Process, k \in Chat :
             \/ EnsureTopic(p, k) \/ Sync(p, k)
             \/ \E t \in DOMAIN forum : Bind(p, k, t)
  BY <1>2, <1>3, <1>4, SetOutTopics DEF Sync
<1>5. CASE TopicsNext /\ \E p \in Process : WalkStep(p)
  BY <1>2, <1>3, <1>5, DiscoverTopics, CreateTopics, ReadTopics, BindTopics,
     CardTopics DEF WalkStep
<1>6. CASE TopicsNext /\ \E p \in Process : Return(p) \/ Stop(p)
  BY <1>2, <1>3, <1>6, LeaveTopics
<1>7. CASE TopicsNext /\ FaultElsewhere
  <2>1. PICK p \in Process : TRUE
    BY TopicsAssumption
  <2>2. Others(p) /\ UNCHANGED <<chat, forum, walk>> /\ faults' = faults + 1
    BY <1>7 DEF FaultElsewhere, Fault, topicVars, Others
  <2>3. /\ Abandoned(j)' = Abandoned(j) /\ Making(j)' = Making(j)
        /\ Unwritten(j)' = Unwritten(j) /\ (Active(j)' <=> Active(j))
    BY <2>2 DEF Abandoned, BoundTo, Making, For, Unwritten, Active
  <2>4. TopicStep(p, j)
    BY <2>2, <2>3 DEF TopicStep, LosesOne
  <2> QED
    BY <1>3, <1>7, <2>2, <2>4
<1>8. CASE UNCHANGED <<topicVars, faults>>
  BY <1>1, <1>8 DEF topicVars, TopicsOf, Abandoned, BoundTo, Making, For,
                    Unwritten, Active
<1> QED
  BY <1>4, <1>5, <1>6, <1>7, <1>8 DEF TopicsNext

LEMMA InitTopics == TopicsInit => TopicCount
<1> SUFFICES ASSUME TopicsInit, NEW j \in Chat PROVE TopicsOf(j)
  BY DEF TopicCount
<1>1. Making(j) = {} /\ Unwritten(j) = {}
  BY DEF TopicsInit, Resting, Making, Unwritten
<1>2. Abandoned(j) = {}
  <2>1. \A t \in DOMAIN forum : forum[t] = j => chat[j].thread = t
    BY TopicsAssumption DEF TopicsInit, InFirst
  <2> QED
    BY <2>1 DEF Abandoned, BoundTo
<1>3. Cardinality(Process) \in Nat \ {0}
  BY InitType, Finite
<1>4. Cardinality({}) = 0 /\ faults = 0
  BY FS_EmptySet DEF TopicsInit
<1> QED
  BY <1>1, <1>2, <1>3, <1>4 DEF TopicsOf

LEMMA TopicsBounded == TopicsTypeOK /\ TopicCount => TopicsAreAccountedFor
<1> SUFFICES ASSUME TopicsTypeOK, TopicCount, NEW j \in Chat
             PROVE  Cardinality(Abandoned(j)) <= faults + Cardinality(Process) - 1
  BY DEF TopicsAreAccountedFor
<1>1. /\ Cardinality(Abandoned(j)) \in Nat /\ Cardinality(Making(j)) \in Nat
      /\ Cardinality(Unwritten(j)) \in Nat /\ Cardinality(Process) \in Nat \ {0}
      /\ faults \in Nat
  BY Finite, FS_CardinalityType DEF TopicsTypeOK
<1> QED
  BY <1>1 DEF TopicCount, TopicsOf

-----------------------------------------------------------------------------
(* The invariant is inductive, and what follows.                           *)

LEMMA InitInv == TopicsInit => TopicsInv
BY InitShape, InitCards, InitTopics DEF TopicsInv

LEMMA NextInv == TopicsInv /\ [TopicsNext]_<<topicVars, faults>> => TopicsInv'
BY NextShape, NextCards, NextTopics DEF TopicsInv

LEMMA InvHolds == TopicsSpec => []TopicsInv
BY InitInv, NextInv, PTL DEF TopicsSpec

(* A chat has one card, and at most one more for each fault and for each   *)
(* other process that posted at the same time.                             *)
THEOREM CardsBound == TopicsSpec => []CardsAreAccountedFor
<1>1. TopicsInv => CardsAreAccountedFor
  BY CardsBounded DEF TopicsInv, Shape
<1> QED
  BY <1>1, InvHolds, PTL

(* A topic that stands empty was left by a fault, or by another process    *)
(* that was making one for the same chat while it was bound.               *)
THEOREM TopicsBound == TopicsSpec => []TopicsAreAccountedFor
<1>1. TopicsInv => TopicsAreAccountedFor
  BY TopicsBounded DEF TopicsInv, Shape
<1> QED
  BY <1>1, InvHolds, PTL

=============================================================================
