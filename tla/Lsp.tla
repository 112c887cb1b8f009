-------------------------------- MODULE Lsp --------------------------------
(***************************************************************************)
(* `ciac lsp`: one thread that answers an editor over a connection, and    *)
(* the editor as far as the server depends on it.  A didChange only notes  *)
(* the buffer and a deadline; the reparse it asks for is run by the main   *)
(* loop when a receive of DEBOUNCE_POLL times out and the deadline has     *)
(* passed.  Diagnostics are a function of the sources they were computed   *)
(* from, so a published list is modelled by those sources.                 *)
(***************************************************************************)
EXTENDS Integers, Sequences

CONSTANTS
  Doc,            \* the documents of the workspace (a path and its URI)
  Text,           \* what a file or a buffer may hold
  Imports,        \* Imports[d]: what the program rooted at d reads besides d
  Missing,        \* the content of a file that does not exist
  Closed,         \* a document the editor does not show
  Never,          \* no deadline
  Nothing,        \* an empty list of diagnostics
  Unreadable,     \* the one whole-file diagnostic of a load that failed
  Debounce,       \* DIDCHANGE_DEBOUNCE, in clock ticks
  Poll,           \* DEBOUNCE_POLL, in clock ticks
  MaxSends        \* bound: messages the editor sends and files others write

ASSUME PollAssumption == Poll \in Nat \ {0}
ASSUME DebounceAssumption == Debounce \in Nat /\ Poll < Debounce
ASSUME ImportsAssumption == Imports \in [Doc -> SUBSET Doc]

Sources == UNION {[S -> Text] : S \in SUBSET Doc}
DocState == [text : Text, symbols : Sources \cup {Nothing}]
Note == {"didOpen", "didChange", "didSave", "didClose", "request"}
Message == [note : {"didOpen", "didChange"}, doc : Doc, text : Text]
             \cup [note : {"didSave", "didClose", "request"}, doc : Doc]

ASSUME SentinelsAssumption ==
  /\ Missing \notin Text
  /\ Closed \notin Text \cup DocState
  /\ Never \notin Int
  /\ Nothing \notin Sources /\ Unreadable \notin Sources /\ Nothing # Unreadable

VARIABLES
  disk,           \* the files
  buffer,         \* what the editor shows of each document, or Closed
  saving,         \* documents written to disk whose didSave is still to be sent
  wire,           \* messages sent to the server and not yet received
  sends,          \* how many messages the editor has sent
  docs,           \* the server's open documents: text and symbols
  pending,        \* pending_reparse: ticks to the deadline of each document, or Never
  shown,          \* the diagnostics last published for each document
  waited,         \* how long the current recv_timeout has waited
  quiet,          \* ticks since the last message was received (counted up to Poll + 1)
  lastNote        \* the last notification handled for each document

vars == <<disk, buffer, saving, wire, sends, docs, pending, shown, waited, quiet, lastNote>>

(***************************************************************************)
(* The front end.  The entry's content is the file's or, for an overlay,   *)
(* the buffer's; an import is always read from disk.                       *)
(***************************************************************************)
Load(d, text) ==
  LET sources == [e \in {d} \cup Imports[d] |-> IF e = d THEN text ELSE disk[e]]
  IN  IF Missing \in {disk[e] : e \in {d} \cup Imports[d]} THEN Unreadable ELSE sources

\* Publishing what a load found; the symbols are replaced only by a load that succeeded.
Publish_FaultyKeepsSymbols(d, found, open) ==
  /\ shown' = [shown EXCEPT ![d] = found]
  /\ docs' = IF found = Unreadable \/ open[d] = Closed \/ open[d].symbols # Nothing THEN open
             ELSE [open EXCEPT ![d].symbols = found]

Publish(d, found, open) ==
  /\ shown' = [shown EXCEPT ![d] = found]
  /\ docs' = IF found = Unreadable \/ open[d] = Closed THEN open
             ELSE [open EXCEPT ![d].symbols = found]

Revalidate(d, open) == Publish(d, Load(d, disk[d]), open)

RevalidateOverlay_FaultyFromDisk(d) ==
  IF docs[d] = Closed THEN UNCHANGED <<shown, docs>> ELSE Revalidate(d, docs)

RevalidateOverlay(d) ==
  IF docs[d] = Closed THEN UNCHANGED <<shown, docs>>
  ELSE Publish(d, Load(d, docs[d].text), docs)

(***************************************************************************)
(* The editor.                                                             *)
(***************************************************************************)
Send(m) ==
  /\ sends < MaxSends
  /\ sends' = sends + 1
  /\ wire' = Append(wire, m)
  /\ UNCHANGED <<docs, pending, shown, waited, quiet, lastNote>>

\* A buffer opened from its file, or restored with edits that were never saved.
Open(d, text) ==
  /\ buffer[d] = Closed
  /\ buffer' = [buffer EXCEPT ![d] = text]
  /\ Send([note |-> "didOpen", doc |-> d, text |-> text])
  /\ UNCHANGED <<disk, saving>>

Type(d, text) ==
  /\ buffer[d] \notin {Closed, text}
  /\ buffer' = [buffer EXCEPT ![d] = text]
  /\ Send([note |-> "didChange", doc |-> d, text |-> text])
  /\ UNCHANGED <<disk, saving>>

\* Saving writes the file and then tells the server; the user may type in between.
Write(d) ==
  /\ buffer[d] # Closed
  /\ d \notin saving
  /\ disk' = [disk EXCEPT ![d] = buffer[d]]
  /\ saving' = saving \cup {d}
  /\ UNCHANGED <<buffer, wire, sends, docs, pending, shown, waited, quiet, lastNote>>

TellSaved(d) ==
  /\ d \in saving
  /\ saving' = saving \ {d}
  /\ Send([note |-> "didSave", doc |-> d])
  /\ UNCHANGED <<disk, buffer>>

Close(d) ==
  /\ buffer[d] # Closed
  /\ d \notin saving
  /\ buffer' = [buffer EXCEPT ![d] = Closed]
  /\ Send([note |-> "didClose", doc |-> d])
  /\ UNCHANGED <<disk, saving>>

\* hover, completion, code actions, rename, definition: answered, and nothing changes.
Ask(d) ==
  /\ buffer[d] # Closed
  /\ Send([note |-> "request", doc |-> d])
  /\ UNCHANGED <<disk, buffer, saving>>

\* Another program writes or removes a file; the server is not told.
WriteFile(d, text) ==
  /\ disk[d] # text
  /\ disk' = [disk EXCEPT ![d] = text]
  /\ sends < MaxSends
  /\ sends' = sends + 1
  /\ UNCHANGED <<buffer, saving, wire, docs, pending, shown, waited, quiet, lastNote>>

(***************************************************************************)
(* The main loop.                                                          *)
(***************************************************************************)
Receive(note, d) ==
  /\ wire # <<>>
  /\ Head(wire).note = note
  /\ Head(wire).doc = d
  /\ wire' = Tail(wire)
  /\ waited' = 0
  /\ quiet' = 0
  /\ lastNote' = IF note = "request" THEN lastNote ELSE [lastNote EXCEPT ![d] = note]
  /\ UNCHANGED <<disk, buffer, saving, sends>>

Settle_FaultyKeepsIt(d) == pending

\* The reparse that is owed for d, if any, is not owed any more.
Settle(d) == [pending EXCEPT ![d] = Never]

DidOpen(d) ==
  /\ Receive("didOpen", d)
  /\ pending' = Settle(d)
  /\ Revalidate(d, [docs EXCEPT ![d] = [text |-> Head(wire).text, symbols |-> Nothing]])

DidChange(d) ==
  /\ Receive("didChange", d)
  /\ IF docs[d] = Closed
     THEN UNCHANGED <<docs, pending>>
     ELSE /\ docs' = [docs EXCEPT ![d].text = Head(wire).text]
          /\ pending' = [pending EXCEPT ![d] = Debounce]
  /\ UNCHANGED shown

DidSave(d) ==
  /\ Receive("didSave", d)
  /\ pending' = Settle(d)
  /\ Revalidate(d, docs)

DidClose(d) ==
  /\ Receive("didClose", d)
  /\ pending' = Settle(d)
  /\ docs' = [docs EXCEPT ![d] = Closed]
  /\ shown' = [shown EXCEPT ![d] = Nothing]

Answer(d) ==
  /\ Receive("request", d)
  /\ UNCHANGED <<docs, pending, shown>>

Due_FaultyOneMorePoll(d) == pending[d] # Never /\ pending[d] <= -Poll

\* A receive that waited DEBOUNCE_POLL in vain runs every reparse that is due; here one
\* at a time, and the next receive starts when none is left.
Due(d) == pending[d] # Never /\ pending[d] <= 0

Fire(d) ==
  /\ wire = <<>>
  /\ waited = Poll
  /\ Due(d)
  /\ pending' = Settle(d)
  /\ RevalidateOverlay(d)
  /\ UNCHANGED <<disk, buffer, saving, wire, sends, waited, quiet, lastNote>>

PollAgain ==
  /\ waited = Poll
  /\ \A d \in Doc : ~Due(d)
  /\ waited' = 0
  /\ UNCHANGED <<disk, buffer, saving, wire, sends, docs, pending, shown, quiet, lastNote>>

\* Time passes only while the server waits in recv_timeout.
Tick ==
  /\ wire = <<>>
  /\ waited < Poll
  /\ waited' = waited + 1
  /\ quiet' = IF quiet > Poll THEN quiet ELSE quiet + 1
  /\ pending' = [d \in Doc |-> IF pending[d] = Never THEN Never ELSE pending[d] - 1]
  /\ UNCHANGED <<disk, buffer, saving, wire, sends, docs, shown, lastNote>>

Init ==
  /\ disk \in [Doc -> Text]
  /\ buffer = [d \in Doc |-> Closed]
  /\ saving = {}
  /\ wire = <<>>
  /\ sends = 0
  /\ docs = [d \in Doc |-> Closed]
  /\ pending = [d \in Doc |-> Never]
  /\ shown = [d \in Doc |-> Nothing]
  /\ waited = 0
  /\ quiet = 0
  /\ lastNote = [d \in Doc |-> "none"]

Editor ==
  \E d \in Doc :
    \/ \E text \in Text : Open(d, text) \/ Type(d, text)
    \/ \E text \in Text \cup {Missing} : WriteFile(d, text)
    \/ Write(d)
    \/ TellSaved(d)
    \/ Close(d)
    \/ Ask(d)

Server ==
  \/ \E d \in Doc : DidOpen(d) \/ DidChange(d) \/ DidSave(d) \/ DidClose(d) \/ Answer(d)
  \/ \E d \in Doc : Fire(d)
  \/ PollAgain

Next == Editor \/ Server \/ Tick

\* The loop never stops and time passes while it waits; the editor owes nothing.
Spec == Init /\ [][Next]_vars /\ WF_vars(Server) /\ WF_vars(Tick)

----------------------------------------------------------------------------
(* What the language server promises its editor. *)

\* Every variable has its type; what is published and what completion answers from are the
\* sources of one load.
TypeOK ==
  /\ disk \in [Doc -> Text \cup {Missing}]
  /\ buffer \in [Doc -> Text \cup {Closed}]
  /\ saving \in SUBSET Doc
  /\ wire \in Seq(Message)
  /\ sends \in Nat
  /\ docs \in [Doc -> DocState \cup {Closed}]
  /\ pending \in [Doc -> Int \cup {Never}]
  /\ shown \in [Doc -> Sources \cup {Nothing, Unreadable}]
  /\ waited \in 0..Poll
  /\ quiet \in 0..(Poll + 1)
  /\ lastNote \in [Doc -> Note \cup {"none"}]

\* Nothing of the editor is on its way and no reparse is owed.
Settled(d) == wire = <<>> /\ pending[d] = Never

(***************************************************************************)
(* What is on screen once the server has settled.  After an edit, the      *)
(* diagnostics of an open document are those of the text in the editor,    *)
(* not of an earlier buffer or of the file (main_loop, revalidate_overlay):*)
(* the reparse that was owed read the newest text whatever was typed while *)
(* it was due.  A closed document shows nothing, even when a reparse was   *)
(* pending when it closed.                                                 *)
(***************************************************************************)
ShowsTheBuffer ==
  \A d \in Doc :
    /\ Settled(d) /\ buffer[d] # Closed /\ lastNote[d] = "didChange" /\ shown[d] # Unreadable
         => shown[d][d] = buffer[d]
    /\ Settled(d) /\ buffer[d] = Closed => shown[d] = Nothing

(***************************************************************************)
(* A debounced reparse is never lost: once a didChange was received, the   *)
(* reparse runs, or a save, an open or a close takes its place.  The wait  *)
(* is postponed by every message, so this leans on an editor that falls    *)
(* silent in the end.                                                      *)
(***************************************************************************)
ReparseHappens == \A d \in Doc : pending[d] # Never ~> pending[d] = Never

(***************************************************************************)
(* How late a reparse may be: less than one poll after its deadline, or no *)
(* more than one poll after the last message, whichever is later           *)
(* (main_loop looks at deadlines only when a receive times out).           *)
(***************************************************************************)
FiresInTime ==
  \A d \in Doc : pending[d] # Never => -pending[d] < Poll \/ quiet <= Poll

(***************************************************************************)
(* The comment on DEBOUNCE_POLL: "Shorter than DIDCHANGE_DEBOUNCE so the   *)
(* fire time is never late by more than this much."                        *)
(***************************************************************************)
NeverLate == \A d \in Doc : pending[d] # Never => -pending[d] <= Poll

(***************************************************************************)
(* Completion and hover answer from the last parse that produced a program *)
(* (DocState.symbols): the symbols of an open document are those of what   *)
(* its diagnostics show, or older when the last load failed.               *)
(***************************************************************************)
SymbolsFollowDiagnostics ==
  \A d \in Doc : docs[d] # Closed /\ shown[d] # Unreadable /\ shown[d] # Nothing
                   => docs[d].symbols = shown[d]
=============================================================================
