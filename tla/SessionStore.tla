---------------------------- MODULE SessionStore ----------------------------
(***************************************************************************)
(* The saved sessions of deeptide-core/src/session.rs: a transcript file   *)
(* per session, replaced through a .tmp sibling.  Writers are threads that *)
(* save; nothing locks them against each other, and every error of the     *)
(* file system is passed over in silence.  A transcript has an entry for   *)
(* each turn: its prompt, or Folded when a compaction, Snip or Brief has   *)
(* put a summary or a marker in the place of the turn's messages.          *)
(*                                                                         *)
(* The index of all sessions of a user (session-locations.json) is not     *)
(* kept here: every process of the user rewrites it in place, an error of  *)
(* any of them empties it, and nothing below depends on what it says.      *)
(***************************************************************************)
EXTENDS ReplaceFile, Naturals, Sequences

CONSTANTS Writers, Prompts
Sessions == Writers     \* a session bears the name of the writer that began it

Folded == 0
Turns == Prompts \cup {Folded}

VARIABLE transcript     \* <session>.jsonl

storeVars == <<transcript>>

Parses(f) == f.path \notin {Absent, Empty, Torn}

StoreInit == transcript = [s \in Sessions |-> NewFile(Absent, Writers)]

(***************************************************************************)
(* save, up to the rename.  The write of the sibling can fail on the way,  *)
(* and so can the rename; the old transcript is then still there.          *)
(***************************************************************************)
\* A save that overwrites the transcript in place.
OpenTranscript(w, s) ==
    transcript' = [transcript EXCEPT ![s] = Opened(@, "path", w)]

OpenSibling(w, s) ==
    transcript' = [transcript EXCEPT ![s] = Opened(@, "tmp", w)]

WriteSibling(w, s, talk) ==
    \E f \in Filled(transcript[s], w, talk) :
        transcript' = [transcript EXCEPT ![s] = f]

BreakSibling(w, s) ==
    transcript' = [transcript EXCEPT ![s] = Broken(@, w)]

RenameSibling(w, s) ==
    \/ /\ transcript[s].tmp # Absent
       /\ transcript' = [transcript EXCEPT ![s] = Renamed(@)]
    \/ UNCHANGED transcript

\* The writers W die.
WritersDie(W) ==
    transcript' = [s \in Sessions |-> Closed(transcript[s], W)]

(***************************************************************************)
(* list scans the directory for .jsonl files and skips one without a first *)
(* line that parses.  load takes an empty file for a session without       *)
(* messages, and fails on a missing or a malformed one.                    *)
(***************************************************************************)
\* A list that takes the .tmp siblings for sessions too.
ListSiblings ==
    {s \in Sessions : Parses(transcript[s]) \/ transcript[s].tmp # Absent}

List == {s \in Sessions : Parses(transcript[s])}
Loads(s) == transcript[s].path \notin {Absent, Torn}
Loaded(s) == IF Parses(transcript[s]) THEN transcript[s].path.of ELSE <<>>
-----------------------------------------------------------------------------
StoreTypeOK == transcript \in [Sessions -> Files(Seq(Turns), Writers)]

\* A transcript that goes on from an old one: it has all its turns, each as
\* it was or folded, and perhaps more.
Extends(new, old) ==
    /\ Len(old) <= Len(new)
    /\ \A i \in 1..Len(old) : new[i] \in {old[i], Folded}
=============================================================================
