--------------------------------- MODULE Prompts ---------------------------------
(***************************************************************************)
(* A person's prompts (PromptStore): shelves of prompts in one file, which *)
(* every request reads, changes and writes as a whole, one request after   *)
(* the other.                                                              *)
(*                                                                         *)
(* Left out: texts, times, case and blanks of names, what is no valid name *)
(* or text, files that others have written.                                *)
(***************************************************************************)
EXTENDS Integers, Sequences, SequencesExt, FiniteSets

CONSTANTS
  PrNames,      \* of shelves and prompts
  PrLibraries,  \* bound: what the file holds at first
  ShelvesMax, PerShelfMax,  \* PROMPT_LIMITS
  PrSlots,      \* bound: requests at one time, 1..
  MaxEdits,     \* bound: requests
  MaxMisfits    \* bound: failed reads and writes, crashes

VARIABLES
  library,   \* the file
  edits,     \* [PrSlots -> a request and how far it is]
  queue,     \* the owner's chain: slots
  expected,  \* history: what the edits that were answered may have made of it, in their order
  editsMade,    \* edits so far
  misfits    \* disturbances so far

prVars == <<library, edits, queue, expected, editsMade, misfits>>

None == [op |-> "none"]
Same == "same"  \* a field that a patch does not have
Nowhere == -1   \* a position that it does not have
Made(lib) == [ok |-> TRUE, lib |-> lib]
Refused == [ok |-> FALSE, lib |-> <<>>]
PrIds == 1..4 + MaxEdits   \* ids: those of the first library and one for every request
Prompt == [id : PrIds, name : PrNames]
Shelf == [id : PrIds, name : PrNames, prompts : Seq(Prompt)]

ShelfIds(lib) == {lib[i].id : i \in DOMAIN lib}
PromptsOf(lib) == UNION {{<<i, j>> : j \in DOMAIN lib[i].prompts} : i \in DOMAIN lib}
NamesOf(items) == {items[i].name : i \in DOMAIN items}

\* A shelf or a prompt is there once, and the limits hold.
RackSound(lib) ==
  /\ \A i, j \in DOMAIN lib : lib[i].id = lib[j].id => i = j
  /\ \A p, q \in PromptsOf(lib) : lib[p[1]].prompts[p[2]].id = lib[q[1]].prompts[q[2]].id => p = q
  /\ Len(lib) <= ShelvesMax
  /\ \A i \in DOMAIN lib : Len(lib[i].prompts) <= PerShelfMax

\* The first library was written by this store.
ASSUME PromptsAssumption ==
  /\ {ShelvesMax, PerShelfMax, MaxEdits, MaxMisfits} \subseteq Nat
  /\ Same \notin PrNames
  /\ \A lib \in PrLibraries :
       /\ lib \in Seq(Shelf) /\ RackSound(lib) /\ ShelfIds(lib) \subseteq 1..4
       /\ \A p \in PromptsOf(lib) : lib[p[1]].prompts[p[2]].id \in 1..4

PrTypeOK ==
  /\ library \in Seq(Shelf) /\ expected \subseteq Seq(Shelf)
  /\ \A s \in PrSlots : edits[s].op \in {"none", "createShelf", "updateShelf", "deleteShelf",
                                         "createPrompt", "updatePrompt", "deletePrompt"}
  /\ ToSet(queue) \subseteq PrSlots
  /\ editsMade \in 0..MaxEdits /\ misfits \in 0..MaxMisfits

PrStart ==
  /\ library \in PrLibraries /\ expected = {library}
  /\ edits = [s \in PrSlots |-> None] /\ queue = <<>> /\ editsMade = 0 /\ misfits = 0

Misfit == misfits < MaxMisfits /\ misfits' = misfits + 1

-----------------------------------------------------------------------------
(* The changes: a library, or a refusal. *)

\* splice out and in again, at a place that is within bounds.
Moved(items, from, to) ==
  LET rest == RemoveAt(items, from)
      at == IF to > Len(rest) THEN Len(rest) ELSE to
  IN InsertAt(rest, at + 1, items[from])
Placed(items, i, position) == IF position = Nowhere THEN items ELSE Moved(items, i, position)
Renamed(item, name) == IF name = Same THEN item ELSE [item EXCEPT !.name = name]
IndexOf(items, id) == CHOOSE i \in DOMAIN items : items[i].id = id
Without(items, id) ==
  LET rest[n \in 0..Len(items)] ==
        IF n = 0 THEN <<>> ELSE IF items[n].id # id THEN Append(rest[n - 1], items[n]) ELSE rest[n - 1]
  IN rest[Len(items)]

CreateShelf(lib, e) ==
  IF e.name \in NamesOf(lib) \/ Len(lib) >= ShelvesMax THEN Refused
  ELSE Made(Append(lib, [id |-> e.new, name |-> e.name, prompts |-> <<>>]))

UpdateShelf(lib, e) ==
  IF e.id \notin ShelfIds(lib) \/ e.name \in NamesOf(Without(lib, e.id)) THEN Refused
  ELSE LET i == IndexOf(lib, e.id)
       IN Made(Placed([lib EXCEPT ![i] = Renamed(@, e.name)], i, e.position))

DeleteShelf(lib, e) == IF e.id \notin ShelfIds(lib) THEN Refused ELSE Made(Without(lib, e.id))

CreatePrompt(lib, e) ==
  IF e.shelf \notin ShelfIds(lib) THEN Refused
  ELSE LET i == IndexOf(lib, e.shelf) prompts == lib[i].prompts
       IN IF e.name \in NamesOf(prompts) \/ Len(prompts) >= PerShelfMax THEN Refused
          ELSE Made([lib EXCEPT ![i].prompts = Append(@, [id |-> e.new, name |-> e.name])])

\* A prompt may get a name, a shelf and a place at once.  Only a new name is compared
\* with its neighbours: those of the shelf it ends on.
UpdatePrompt(lib, e) ==
  LET found == {p \in PromptsOf(lib) : lib[p[1]].prompts[p[2]].id = e.id}
      from == (CHOOSE p \in found : TRUE)[1]
      at == (CHOOSE p \in found : TRUE)[2]
      to == IF e.shelf = 0 THEN from ELSE IndexOf(lib, e.shelf)
      target == lib[to].prompts
      next == Renamed(lib[from].prompts[at], e.name)
  IN IF \/ found = {} \/ e.shelf \notin ShelfIds(lib) \union {0}
        \/ e.name \in NamesOf(Without(target, e.id))
        \/ to # from /\ Len(target) >= PerShelfMax
     THEN Refused
     ELSE IF to = from
     THEN Made([lib EXCEPT ![to].prompts = Placed([@ EXCEPT ![at] = next], at, e.position)])
     ELSE Made([lib EXCEPT ![from].prompts = Without(@, e.id),
                           ![to].prompts = Placed(Append(@, next), Len(@) + 1, e.position)])

DeletePrompt(lib, e) ==
  LET found == {p \in PromptsOf(lib) : lib[p[1]].prompts[p[2]].id = e.id}
  IN IF found = {} THEN Refused
     ELSE Made([lib EXCEPT ![(CHOOSE p \in found : TRUE)[1]].prompts = Without(@, e.id)])

Applied(lib, e) ==
  CASE e.op = "createShelf" -> CreateShelf(lib, e)
    [] e.op = "updateShelf" -> UpdateShelf(lib, e)
    [] e.op = "deleteShelf" -> DeleteShelf(lib, e)
    [] e.op = "createPrompt" -> CreatePrompt(lib, e)
    [] e.op = "updatePrompt" -> UpdatePrompt(lib, e)
    [] e.op = "deletePrompt" -> DeletePrompt(lib, e)

-----------------------------------------------------------------------------
(* Requests. *)

Asked(op, name, id, shelf, position) ==
  [op |-> op, name |-> name, id |-> id, shelf |-> shelf, position |-> position,
   new |-> 5 + editsMade, at |-> "queued", read |-> <<>>, blind |-> FALSE]

\* What a tab asks for, with the ids and places it last saw: the library is another
\* by now, perhaps.
RequestEdit(s) ==
  /\ edits[s] = None /\ editsMade < MaxEdits /\ editsMade' = editsMade + 1
  /\ \A q \in 1..s - 1 : edits[q] # None
  /\ \E name \in PrNames \union {Same}, id \in 1..4, shelf \in {0, 1, 2}, position \in {Nowhere, 0, 9} :
       LET e(op) == Asked(op, name, id, shelf, position)
       IN \/ /\ name # Same /\ id = 1 /\ shelf = 0 /\ position = Nowhere
             /\ edits' = [edits EXCEPT ![s] = e("createShelf")]
          \/ /\ id \in {1, 2} /\ shelf = 0
             /\ edits' = [edits EXCEPT ![s] = e("updateShelf")]
          \/ /\ name = Same /\ id \in {1, 2} /\ shelf = 0 /\ position = Nowhere
             /\ edits' = [edits EXCEPT ![s] = e("deleteShelf")]
          \/ /\ name # Same /\ id = 1 /\ shelf # 0 /\ position = Nowhere
             /\ edits' = [edits EXCEPT ![s] = e("createPrompt")]
          \/ id \in {3, 4} /\ edits' = [edits EXCEPT ![s] = e("updatePrompt")]
          \/ /\ name = Same /\ id \in {3, 4} /\ shelf = 0 /\ position = Nowhere
             /\ edits' = [edits EXCEPT ![s] = e("deletePrompt")]
  /\ queue' = Append(queue, s)
  /\ UNCHANGED <<library, expected, misfits>>

\* An edit runs behind those before it.
MayRead(s) == Head(queue) = s

ReadLibrary(s) ==
  /\ edits[s] # None /\ edits[s].at = "queued" /\ MayRead(s)
  /\ edits' = [edits EXCEPT ![s].at = "write", ![s].read = library]
  /\ UNCHANGED <<library, queue, expected, editsMade, misfits>>

\* A file that cannot be read is taken for none.
ReadFails(s) ==
  /\ edits[s] # None /\ edits[s].at = "queued" /\ MayRead(s) /\ Misfit
  /\ edits' = [edits EXCEPT ![s].at = "write", ![s].read = <<>>, ![s].blind = TRUE]
  /\ UNCHANGED <<library, queue, expected, editsMade>>

Leave(s) == edits' = [edits EXCEPT ![s] = None] /\ queue' = Tail(queue)

\* The file is replaced.
WriteLibrary(s) ==
  LET made == Applied(edits[s].read, edits[s])
  IN /\ edits[s] # None /\ edits[s].at = "write" /\ made.ok
     /\ library' = made.lib /\ edits' = [edits EXCEPT ![s].at = "answer"]
     /\ UNCHANGED <<queue, expected, editsMade, misfits>>

\* A refusal writes nothing, and a write may fail.
FailEdit(s) ==
  /\ edits[s] # None /\ edits[s].at = "write"
  /\ \/ ~Applied(edits[s].read, edits[s]).ok /\ UNCHANGED misfits
     \/ Misfit
  /\ Leave(s)
  /\ UNCHANGED <<library, expected, editsMade>>

\* What an edit may have made of the file, one of these racks.
Outcomes(racks, e) ==
  LET before == IF e.blind THEN {<<>>} ELSE racks
      made == {Applied(lib, e) : lib \in before}
  IN {m.lib : m \in {n \in made : n.ok}}

AnswerEdit(s) ==
  /\ edits[s] # None /\ edits[s].at = "answer"
  /\ expected' = Outcomes(expected, edits[s]) /\ Leave(s)
  /\ UNCHANGED <<library, editsMade, misfits>>

Unanswered == {s \in PrSlots : edits[s] # None /\ edits[s].at = "answer"}
Possible == expected \union UNION {Outcomes(expected, edits[s]) : s \in Unanswered}

\* What is under way is gone; an edit that was not answered yet may have been made.
PrCrash ==
  /\ Misfit /\ edits' = [s \in PrSlots |-> None] /\ queue' = <<>>
  /\ expected' = Possible
  /\ UNCHANGED <<library, editsMade>>

PrNext ==
  \/ \E s \in PrSlots :
       RequestEdit(s) \/ ReadLibrary(s) \/ ReadFails(s) \/ WriteLibrary(s) \/ FailEdit(s) \/ AnswerEdit(s)
  \/ PrCrash

PrSpec == PrStart /\ [][PrNext]_prVars

-----------------------------------------------------------------------------
(* What the store promises. *)

\* The file holds every edit that was answered, in the order of the answers, and of the
\* others at most the one whose answer is due or was cut off by a crash.  An edit that
\* could not read the file begins a rack anew, and what was on the old one is gone.  A
\* prompt or a shelf is there once, whatever was moved where; and the limits hold
\* (PromptStore).
RackKept == library \in Possible /\ RackSound(library)
===============================================================================
