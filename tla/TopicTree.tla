-------------------------------- MODULE TopicTree --------------------------------
(***************************************************************************)
(* The tree of topics of one chat (topics.ts, and the methods of           *)
(* HistoryStore that call it): paths that are compared without case, what  *)
(* a rename moves along, and the order in which the panel lists it.        *)
(*                                                                         *)
(* Left out: the messages of a topic and the labels (module History), the  *)
(* form of a segment, the sidecar, which is written after every change; a  *)
(* letter whose length changes with its case, since a rename cuts a path   *)
(* by the length of the old one where it has matched without case.         *)
(***************************************************************************)
EXTENDS Integers, Sequences, SequencesExt, FiniteSets, FiniteSetsExt

CONSTANTS
  Segments, FoldOf,  \* parts of a path; [Segments -> what they are without case]
  MaxDepth,          \* bound: segments of a path
  MaxTopicId,        \* bound: topics ever made
  UsageDays,         \* TOPIC_USAGE_WINDOW_DAYS
  LastDay,           \* bound: days
  MaxUses,           \* bound: sends
  MaxChanges         \* bound: topics made, renamed, removed

ASSUME TopicTreeAssumption ==
  /\ {MaxDepth, MaxTopicId, UsageDays} \subseteq Nat \ {0} /\ {LastDay, MaxUses, MaxChanges} \subseteq Nat

VARIABLES
  topics,   \* [id, path]
  usage,    \* [id -> [day -> uses]], until it is pruned
  lastUsed, \* [id -> day], -1 for never
  today,
  nextId,
  kept,     \* history: ids that nothing removed
  sends,    \* history: [id -> the days of its uses]
  changes   \* changes so far

ttVars == <<topics, usage, lastUsed, today, nextId, kept, sends, changes>>

DefaultId == 0
TopicIds == 0..MaxTopicId
Days == 0..LastDay
Paths == UNION {[1..n -> Segments] : n \in 1..MaxDepth}

TtTypeOK ==
  /\ topics \subseteq [id : TopicIds, path : Seq(Segments)]
  /\ usage \in [TopicIds -> [Days -> 0..MaxUses]]
  /\ lastUsed \in [TopicIds -> Days \union {-1}]
  /\ today \in Days /\ nextId \in 1..MaxTopicId + 1 /\ kept \subseteq TopicIds
  /\ \A i \in TopicIds : ToSet(sends[i]) \subseteq Days
  /\ changes \in 0..MaxChanges

Unused == [d \in Days |-> 0]

TtStart ==
  /\ \E s \in Segments : topics = {[id |-> DefaultId, path |-> <<s>>]}
  /\ usage = [i \in TopicIds |-> Unused] /\ lastUsed = [i \in TopicIds |-> -1]
  /\ today = 0 /\ nextId = 1 /\ kept = {DefaultId} /\ sends = [i \in TopicIds |-> <<>>] /\ changes = 0

-----------------------------------------------------------------------------
(* Paths. *)

Key(path) == [i \in DOMAIN path |-> FoldOf[path[i]]]
\* What a path begins with: every path above it.
Above(path) == {SubSeq(path, 1, n) : n \in 1..Len(path) - 1}
HasPath(set, path) == \E t \in set : Key(t.path) = Key(path)
IsUnder(path, root) == Len(path) > Len(root) /\ Key(SubSeq(path, 1, Len(root))) = Key(root)
Subtree(topic) == {t \in topics : t = topic \/ IsUnder(t.path, topic.path)}
Ids(set) == {t.id : t \in set}

\* The missing ancestors of a path, from the root on, with new ids.
WithAncestors(set, path) ==
  LET missing == {p \in Above(path) : ~HasPath(set, p)}
      first == Cardinality({p \in Above(path) : HasPath(set, p)})
  IN set \union {[id |-> nextId + Len(p) - first - 1, path |-> p] : p \in missing}

-----------------------------------------------------------------------------
(* createTopic, renameTopic, removeTopic. *)

Changes == changes < MaxChanges /\ changes' = changes + 1

CreateTopic(path) ==
  /\ Changes /\ ~HasPath(topics, path)
  /\ LET grown == WithAncestors(topics, path)
         new == nextId + Cardinality(grown) - Cardinality(topics)
     IN /\ new <= MaxTopicId
        /\ topics' = grown \union {[id |-> new, path |-> path]}
        /\ nextId' = new + 1 /\ kept' = kept \union nextId..new
  /\ UNCHANGED <<usage, lastUsed, today, sends>>

\* A topic of the subtree keeps what it has behind the renamed one.
Repathed(topic, path, t) ==
  [t EXCEPT !.path = path \o SubSeq(@, Len(topic.path) + 1, Len(@))]

\* The topic moves with all that is under it, and what the new path lacks is made.
RenameTopic(topic, path) ==
  LET subtree == Subtree(topic)
      moved == {Repathed(topic, path, t) : t \in subtree}
      grown == WithAncestors((topics \ subtree) \union moved, path)
      last == nextId + Cardinality(grown) - Cardinality(topics) - 1
  IN /\ Changes
     /\ topic.id # DefaultId \/ Len(path) = 1
     /\ ~IsUnder(path, topic.path)
     /\ \A t \in moved : ~HasPath(topics \ subtree, t.path)
     /\ \A t \in moved : Len(t.path) <= MaxDepth
     /\ last <= MaxTopicId
     /\ topics' = grown /\ nextId' = last + 1 /\ kept' = kept \union nextId..last
     /\ UNCHANGED <<usage, lastUsed, today, sends>>

RemoveSubtree(topic) ==
  LET gone == Ids(Subtree(topic))
  IN /\ Changes /\ topic.id # DefaultId
     /\ topics' = topics \ Subtree(topic) /\ kept' = kept \ gone
     /\ usage' = [i \in TopicIds |-> IF i \in gone THEN Unused ELSE usage[i]]
     /\ lastUsed' = [i \in TopicIds |-> IF i \in gone THEN -1 ELSE lastUsed[i]]
     /\ UNCHANGED <<today, nextId, sends>>

-----------------------------------------------------------------------------
(* Uses, counted by day. *)

\* A send is counted for a topic that is still there.
RecordTopicUse(topic) ==
  /\ FoldSet(LAMBDA i, n : n + Len(sends[i]), 0, TopicIds) < MaxUses
  /\ usage' = [usage EXCEPT ![topic.id][today] = @ + 1]
  /\ lastUsed' = [lastUsed EXCEPT ![topic.id] = today]
  /\ sends' = [sends EXCEPT ![topic.id] = Append(@, today)]
  /\ UNCHANGED <<topics, today, nextId, kept, changes>>

DirectUsage(id) == FoldSet(LAMBDA d, n : n + usage[id][d], 0, {d \in Days : d > today - UsageDays})

PruneTopicUsage ==
  /\ usage' = [i \in TopicIds |-> [d \in Days |-> IF d <= today - UsageDays THEN 0 ELSE usage[i][d]]]
  /\ UNCHANGED <<topics, lastUsed, today, nextId, kept, sends, changes>>

NewDay ==
  /\ today < LastDay /\ today' = today + 1
  /\ UNCHANGED <<topics, usage, lastUsed, nextId, kept, sends, changes>>

TtNext ==
  \/ \E path \in Paths : CreateTopic(path) \/ \E t \in topics : RenameTopic(t, path)
  \/ \E t \in topics : RemoveSubtree(t) \/ RecordTopicUse(t)
  \/ PruneTopicUsage \/ NewDay

TtSpec == TtStart /\ [][TtNext]_ttVars

-----------------------------------------------------------------------------
(* topicViews: the list the panel shows. *)

SubtreeUsage(t) == FoldSet(LAMBDA s, n : n + DirectUsage(s.id), 0, Subtree(t))
SubtreeLastUsed(t) == Max({lastUsed[s.id] : s \in Subtree(t)})
ParentOf(t) == {p \in topics : Key(p.path) \in {Key(a) : a \in Above(t.path)} /\ Len(p.path) = Len(t.path) - 1}

\* What is used more comes first, then what was used last; the rest by name and id,
\* here by id.
ListedBefore(a, b) ==
  \/ SubtreeUsage(a) > SubtreeUsage(b)
  \/ SubtreeUsage(a) = SubtreeUsage(b) /\ SubtreeLastUsed(a) > SubtreeLastUsed(b)
  \/ SubtreeUsage(a) = SubtreeUsage(b) /\ SubtreeLastUsed(a) = SubtreeLastUsed(b) /\ a.id < b.id

TopicViews ==
  LET walk[parents \in {{}} \union {{t} : t \in topics}] ==
        LET children == SetToSortSeq({t \in topics : ParentOf(t) = parents}, ListedBefore)
        IN FlattenSeq([i \in DOMAIN children |-> <<children[i]>> \o walk[{children[i]}]])
  IN walk[{}]

-----------------------------------------------------------------------------
(* What the tree promises. *)

\* Whatever is made, renamed and removed in any order: no two topics have a path that
\* differs by case only, every topic has its parent, the default topic stays and at the
\* root, no topic is lost or comes back, and the list shows each once, behind its
\* parent, with no fewer uses above than below.  What was pruned was not counted any
\* more (renameTopic, ensureAncestors, topicViews, pruneTopicUsage).
TreeSound ==
  /\ \A a, b \in topics : a.id = b.id \/ Key(a.path) = Key(b.path) => a = b
  /\ \A t \in topics : Len(t.path) > 1 => ParentOf(t) # {}
  /\ \E t \in topics : t.id = DefaultId /\ Len(t.path) = 1
  /\ Ids(topics) = kept
  /\ LET list == TopicViews
     IN /\ ToSet(list) = topics /\ Len(list) = Cardinality(topics)
        /\ \A i \in DOMAIN list : \A p \in ParentOf(list[i]) :
             /\ \E j \in 1..i - 1 : list[j] = p
             /\ SubtreeUsage(p) >= SubtreeUsage(list[i])
  /\ \A t \in topics :
       DirectUsage(t.id) = Cardinality({n \in DOMAIN sends[t.id] : sends[t.id][n] > today - UsageDays})
===============================================================================
