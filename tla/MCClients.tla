------------------------------- MODULE MCClients -------------------------------
(***************************************************************************)
(* The web chat, its panel and a messenger for TLC.  The parts share no    *)
(* state: a behaviour exercises one of them while the others stay as they  *)
(* start.                                                                  *)
(***************************************************************************)
EXTENDS Reactions, Panel, Badges, Console, ConsoleLine, Logins, Prompts, TopicTree, Channels

CONSTANTS ann, ben, bot, aid, mPeople, mMixed, mAgents, mine1, their1, old1, old2, main, aside, idle

\* A message of two people, of an agent and a person, and of two agents.
MCEnds ==
  [m \in {mPeople, mMixed, mAgents} |->
     CASE m = mPeople -> <<ann, ben>> [] m = mMixed -> <<bot, ann>> [] OTHER -> <<bot, aid>>]
\* The tab opens on a chat with a record in either topic; one more comes in either.
MCThreadOf == [m \in {mine1, their1, old1, old2} |-> IF m \in {their1, old2} THEN aside ELSE main]
MCPast == <<old1, old2>>

\* A shelf that is full and an empty one of the name of one of its prompts.
MCShelves ==
  <<[id |-> 1, name |-> "a", prompts |-> <<[id |-> 3, name |-> "a"], [id |-> 4, name |-> "b"]>>],
    [id |-> 2, name |-> "b", prompts |-> <<>>]>>
MCLibraries == {MCShelves}

MCFold == [s \in {"a", "A", "b"} |-> IF s = "A" THEN "a" ELSE s]

VARIABLE focus  \* the part that a behaviour exercises

ClientsInit ==
  /\ focus \in {"reactions", "panel", "badges", "console", "line", "logins", "prompts", "topics", "channels"}
  /\ RxStart /\ PaStart /\ BaStart /\ CoStart /\ ClStart /\ LoStart /\ PrStart /\ TtStart /\ ChStart
  \* What is not exercised starts in one way only.
  /\ focus # "panel" => view = main
  /\ focus # "badges" => mood = idle
  /\ focus # "topics" => topics = {[id |-> DefaultId, path |-> <<"a">>]}
  /\ focus # "channels" => channel = [type |-> "slack", users |-> FALSE, shipped |-> FALSE]

ClientsNext ==
  \/ /\ focus = "reactions" /\ RxNext
     /\ UNCHANGED <<focus, paVars, baVars, coVars, clVars, loVars, prVars, ttVars, chVars>>
  \/ /\ focus = "panel" /\ PaNext
     /\ UNCHANGED <<focus, rxVars, baVars, coVars, clVars, loVars, prVars, ttVars, chVars>>
  \/ /\ focus = "badges" /\ BaNext
     /\ UNCHANGED <<focus, rxVars, paVars, coVars, clVars, loVars, prVars, ttVars, chVars>>
  \/ /\ focus = "console" /\ CoNext
     /\ UNCHANGED <<focus, rxVars, paVars, baVars, clVars, loVars, prVars, ttVars, chVars>>
  \/ /\ focus = "line" /\ ClNext
     /\ UNCHANGED <<focus, rxVars, paVars, baVars, coVars, loVars, prVars, ttVars, chVars>>
  \/ /\ focus = "logins" /\ LoNext
     /\ UNCHANGED <<focus, rxVars, paVars, baVars, coVars, clVars, prVars, ttVars, chVars>>
  \/ /\ focus = "prompts" /\ PrNext
     /\ UNCHANGED <<focus, rxVars, paVars, baVars, coVars, clVars, loVars, ttVars, chVars>>
  \/ /\ focus = "topics" /\ TtNext
     /\ UNCHANGED <<focus, rxVars, paVars, baVars, coVars, clVars, loVars, prVars, chVars>>
  \/ /\ focus = "channels" /\ ChNext
     /\ UNCHANGED <<focus, rxVars, paVars, baVars, coVars, clVars, loVars, prVars, ttVars>>

ClientsSpec ==
  /\ ClientsInit
  /\ [][ClientsNext]_<<focus, rxVars, paVars, baVars, coVars, clVars, loVars, prVars, ttVars, chVars>>

\* What is not exercised keeps the value it started with.
ClientsTypeOK ==
  CASE focus = "reactions" -> RxTypeOK
    [] focus = "panel" -> PaTypeOK
    [] focus = "badges" -> BaTypeOK
    [] focus = "console" -> CoTypeOK
    [] focus = "line" -> ClTypeOK
    [] focus = "logins" -> LoTypeOK
    [] focus = "prompts" -> PrTypeOK
    [] focus = "topics" -> TtTypeOK
    [] focus = "channels" -> ChTypeOK

\* What an open panel shows: the feed has all that it was told of, and the badges and
\* phases are the ones the server last had (store.ts, and what connector.ts pushes).
PanelTells ==
  /\ focus = "panel" => FeedComplete
  /\ focus = "badges" => BadgesTell

\* What is kept twice agrees: the marks of a chat, on both its sides and in the tabs; the
\* line that a session took with the record of it; the file of prompts with the edits that
\* were answered (reactions.ts, console-input.ts, prompts.ts).
CopiesAgree ==
  /\ focus = "reactions" => ReactionsAgree
  /\ focus = "line" => PlainLinesRecorded
  /\ focus = "prompts" => RackKept

\* What a person does in a console reaches the session and what it writes reaches the
\* person; the topics that several tabs change stay a tree (connector.ts, control.ts,
\* topics.ts).
EditsHold ==
  /\ focus = "console" => ConsoleFaithful
  /\ focus = "topics" => TreeSound
===============================================================================
