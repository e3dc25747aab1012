----------------------------- MODULE LiveReload -----------------------------
(***************************************************************************)
(* Live mode (run_live in src/src/main.c): one loop polls the modification *)
(* time of the source file and runs the file when the time has changed,    *)
(* while an editor writes, replaces or removes the file at any moment.     *)
(* Polling, opening and reading are separate steps.  A write to the file,  *)
(* in place or by renaming another file over it, gives it a modification   *)
(* time of its own; a save in several writes is several Write steps.       *)
(* What run_source does with the text is module RunSource.                 *)
(***************************************************************************)
EXTENDS Naturals

CONSTANTS Content,    \* what a file can hold
          Torn,       \* what a read gives that a write has overtaken
          NoText,     \* no text read yet
          MaxWrites   \* bound: writes to the file

ASSUME LiveAssumption ==
    /\ MaxWrites \in Nat
    /\ Torn \notin Content /\ NoText \notin Content /\ Torn # NoText

VARIABLES file,      \* modification time (0: there is no file) and content
          clock,     \* the latest modification time ever given
          pc,        \* where run_live is
          last,      \* its variable last
          open,      \* the file as it was when read_file opened it
          src,       \* the text read_file gave
          ran,       \* the text of the latest run
          reloads    \* how many runs there were

vars == <<file, clock, pc, last, open, src, ran, reloads>>
Text == Content \cup {Torn, NoText}
File == [mtime : Nat, data : Text]
NoFile == [mtime |-> 0, data |-> NoText]

Init == /\ \/ file = NoFile /\ clock = 0
           \/ \E c \in Content : file = [mtime |-> 1, data |-> c] /\ clock = 1
        /\ pc = "poll" /\ last = 0
        /\ open = NoFile /\ src = NoText /\ ran = NoText /\ reloads = 0

-----------------------------------------------------------------------------
\* The editor

Write(c) == /\ clock < MaxWrites
            /\ clock' = clock + 1
            /\ file' = [mtime |-> clock + 1, data |-> c]
            /\ UNCHANGED <<pc, last, open, src, ran, reloads>>

Remove == /\ file # NoFile
          /\ file' = NoFile
          /\ UNCHANGED <<clock, pc, last, open, src, ran, reloads>>

-----------------------------------------------------------------------------
\* The loop

file_mtime_ns == file.mtime

\* Faulty variant: any file is taken as changed.
AnyFile(m) == m # 0
\* Faulty variant: times are compared in a unit of two ticks of the clock.
CoarselyChanged(m) == m # 0 /\ m \div 2 # last \div 2
Changed(m) == m # 0 /\ m # last

\* One round: nothing changed, sleep and poll again; or remember the time
\* and go on to read.
Poll == /\ pc = "poll"
        /\ Changed(file_mtime_ns)
        /\ last' = file_mtime_ns
        /\ pc' = "open"
        /\ UNCHANGED <<file, clock, open, src, ran, reloads>>

\* The file is gone: the failure is printed, the loop goes on.
OpenFails == /\ pc = "open"
             /\ file = NoFile
             /\ pc' = "poll"
             /\ UNCHANGED <<file, clock, last, open, src, ran, reloads>>

Open == /\ pc = "open"
        /\ file # NoFile
        /\ open' = file
        /\ pc' = "read"
        /\ UNCHANGED <<file, clock, last, src, ran, reloads>>

\* What is read when the file has changed since it was opened: the old text
\* (it was replaced or removed), the new one or, written in place, a mixture.
Read == /\ pc = "read"
        /\ src' \in IF file = open THEN {open.data}
                    ELSE {open.data, Torn} \cup ({file.data} \ {NoText})
        /\ pc' = "run"
        /\ UNCHANGED <<file, clock, last, open, ran, reloads>>

\* Faulty variant: the time of the file is remembered when the run is over.
RunStamps == /\ pc = "run"
             /\ ran' = src
             /\ reloads' = reloads + 1
             /\ last' = file.mtime
             /\ pc' = "poll"
             /\ UNCHANGED <<file, clock, open, src>>
\* run_source runs the text to the end of its top level; then the loop sleeps.
Run == /\ pc = "run"
       /\ ran' = src
       /\ reloads' = reloads + 1
       /\ pc' = "poll"
       /\ UNCHANGED <<file, clock, last, open, src>>

Loop == Poll \/ OpenFails \/ Open \/ Read \/ Run
Next == Loop \/ Remove \/ \E c \in Content : Write(c)
Spec == Init /\ [][Next]_vars

\* The loop keeps going: nanosleep returns, and so does a program whose top
\* level ends.  Nothing is asked of the editor.
FairSpec == Spec /\ WF_vars(Loop)

-----------------------------------------------------------------------------
\* Properties

\* The loop's variables hold texts and times, and no time is remembered that
\* no file has had.
TypeOK == /\ file \in File /\ open \in File
          /\ clock \in Nat /\ last \in 0 .. clock /\ reloads \in Nat
          /\ pc \in {"poll", "open", "read", "run"}
          /\ src \in Text /\ ran \in Text

\* run_live never forgets a save: when it is about to poll and holds the
\* file's time as seen, what it ran last is what the file holds, however
\* writes fell between the poll, the opening, the reading and the run.
NothingForgotten == pc = "poll" /\ file # NoFile /\ last = file.mtime => ran = file.data

\* A file that is left alone is not run again: every reload is due to a write
\* of its own.
ReloadsPaid == reloads <= clock

\* Once the editor stops, the loop comes to rest with the file's content run,
\* torn and outdated reads and vanished files notwithstanding.
NewestRuns == <>[](file # NoFile => ran = file.data)
=============================================================================
