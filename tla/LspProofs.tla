----------------------------- MODULE LspProofs -----------------------------
(***************************************************************************)
(* Theorems about Lsp, for any documents, texts, imports, length of the    *)
(* session, debounce and poll: what is on screen once the server has       *)
(* settled, how late a reparse may be, and that completion agrees with     *)
(* what is shown.                                                          *)
(***************************************************************************)
EXTENDS Lsp, TLAPS

----------------------------------------------------------------------------
(* What the server will hold of a document once it has handled the first   *)
(* messages on the wire.                                                   *)

Speaks(m, d) == m.doc = d /\ m.note \in {"didOpen", "didChange", "didClose"}
Says(m) == IF m.note = "didClose" THEN Closed ELSE m.text

\* The last of the messages before the i-th that speaks for d says v; if none does, the server
\* holds v already, as h.
HeldAt(w, h, d, i, v) ==
  \/ /\ \A k \in 1..(i - 1) : ~Speaks(w[k], d)
     /\ v = h
  \/ \E j \in 1..(i - 1) : /\ Speaks(w[j], d) /\ v = Says(w[j])
                           /\ \A k \in (j + 1)..(i - 1) : ~Speaks(w[k], d)

Held(d) == IF docs[d] = Closed THEN Closed ELSE docs[d].text

----------------------------------------------------------------------------
(* The inductive invariant.                                                *)

\* The editor's buffer is what the server will hold when it has read everything; it never
\* reads a change or a save of a document that is closed by then.
Mirrors ==
  \A d \in Doc : HeldAt(wire, Held(d), d, Len(wire) + 1, buffer[d])
Expected ==
  \A d \in Doc : \A i \in 1..Len(wire) :
    wire[i].doc = d /\ wire[i].note \in {"didChange", "didSave"}
      => ~HeldAt(wire, Held(d), d, i, Closed)
SavesOpen == \A d \in saving : buffer[d] # Closed

\* A closed document shows nothing and is owed nothing; a document whose last change was
\* reparsed shows that text.
ClosedIsBlank == \A d \in Doc : docs[d] = Closed => shown[d] = Nothing /\ pending[d] = Never
ChangesShown ==
  \A d \in Doc :
    docs[d] # Closed /\ pending[d] = Never /\ lastNote[d] = "didChange" /\ shown[d] # Unreadable
      => shown[d][d] = docs[d].text

\* A receive that began with a poll, and not with a message, began with nothing due.
NothingWasDue ==
  /\ quiet >= waited
  /\ quiet > waited => \A d \in Doc : pending[d] # Never => pending[d] + waited > 0

Inv ==
  /\ TypeOK
  /\ Mirrors /\ Expected /\ SavesOpen
  /\ ClosedIsBlank /\ ChangesShown /\ NothingWasDue
  /\ SymbolsFollowDiagnostics

----------------------------------------------------------------------------
(* HeldAt says one thing, and follows the wire as it grows and shrinks.    *)

\* Before the first message the server holds what it holds.
LEMMA HeldAtFirst ==
  ASSUME NEW w, NEW h, NEW d, NEW v
  PROVE  HeldAt(w, h, d, 1, v) <=> v = h
BY DEF HeldAt

\* It holds one text of a document at a time.
LEMMA HeldAtIsOne ==
  ASSUME NEW w, NEW h, NEW d, NEW i \in Nat, NEW u, NEW v,
         HeldAt(w, h, d, i, u), HeldAt(w, h, d, i, v)
  PROVE  u = v
<1>1. CASE \A k \in 1..(i - 1) : ~Speaks(w[k], d)
  BY <1>1 DEF HeldAt
<1>2. CASE ~ \A k \in 1..(i - 1) : ~Speaks(w[k], d)
  <2>1. PICK j \in 1..(i - 1) : /\ Speaks(w[j], d) /\ u = Says(w[j])
                                /\ \A k \in (j + 1)..(i - 1) : ~Speaks(w[k], d)
    BY <1>2 DEF HeldAt
  <2>2. PICK l \in 1..(i - 1) : /\ Speaks(w[l], d) /\ v = Says(w[l])
                                /\ \A k \in (l + 1)..(i - 1) : ~Speaks(w[k], d)
    BY <1>2 DEF HeldAt
  <2>3. ~(j < l) /\ ~(l < j)
    BY <2>1, <2>2
  <2> QED BY <2>1, <2>2, <2>3
<1> QED BY <1>1, <1>2

\* Later messages do not matter.
LEMMA HeldAtBelow ==
  ASSUME NEW w, NEW x, NEW h, NEW d, NEW v, NEW i \in Nat, \A k \in 1..(i - 1) : x[k] = w[k]
  PROVE  HeldAt(x, h, d, i, v) <=> HeldAt(w, h, d, i, v)
BY DEF HeldAt

\* One message more.
LEMMA HeldAtNext ==
  ASSUME NEW w, NEW h, NEW d, NEW v, NEW i \in Nat \ {0}
  PROVE  HeldAt(w, h, d, i + 1, v) <=>
           IF Speaks(w[i], d) THEN v = Says(w[i]) ELSE HeldAt(w, h, d, i, v)
<1>1. (i + 1) - 1 = i /\ i \in 1..i
  OBVIOUS
<1>2. CASE Speaks(w[i], d)
  <2>1. ASSUME v = Says(w[i]) PROVE HeldAt(w, h, d, i + 1, v)
    BY <1>1, <1>2, <2>1 DEF HeldAt
  <2>2. ASSUME HeldAt(w, h, d, i + 1, v) PROVE v = Says(w[i])
    <3>1. PICK j \in 1..i : /\ Speaks(w[j], d) /\ v = Says(w[j])
                            /\ \A k \in (j + 1)..i : ~Speaks(w[k], d)
      BY <1>1, <1>2, <2>2 DEF HeldAt
    <3>2. j = i
      BY <1>2, <3>1
    <3> QED BY <3>1, <3>2
  <2> QED BY <1>2, <2>1, <2>2
<1>3. CASE ~Speaks(w[i], d)
  <2>1. ASSUME HeldAt(w, h, d, i, v) PROVE HeldAt(w, h, d, i + 1, v)
    <3>1. CASE (\A k \in 1..(i - 1) : ~Speaks(w[k], d)) /\ v = h
      <4>1. \A k \in 1..i : ~Speaks(w[k], d)
        BY <1>3, <3>1
      <4> QED BY <1>1, <3>1, <4>1 DEF HeldAt
    <3>2. CASE \E j \in 1..(i - 1) : /\ Speaks(w[j], d) /\ v = Says(w[j])
                                     /\ \A k \in (j + 1)..(i - 1) : ~Speaks(w[k], d)
      <4>1. PICK j \in 1..(i - 1) : /\ Speaks(w[j], d) /\ v = Says(w[j])
                                    /\ \A k \in (j + 1)..(i - 1) : ~Speaks(w[k], d)
        BY <3>2
      <4>2. j \in 1..i /\ \A k \in (j + 1)..i : ~Speaks(w[k], d)
        BY <1>3, <4>1
      <4> QED BY <1>1, <4>1, <4>2 DEF HeldAt
    <3> QED BY <2>1, <3>1, <3>2 DEF HeldAt
  <2>2. ASSUME HeldAt(w, h, d, i + 1, v) PROVE HeldAt(w, h, d, i, v)
    <3>1. CASE (\A k \in 1..i : ~Speaks(w[k], d)) /\ v = h
      BY <3>1 DEF HeldAt
    <3>2. CASE \E j \in 1..i : /\ Speaks(w[j], d) /\ v = Says(w[j])
                               /\ \A k \in (j + 1)..i : ~Speaks(w[k], d)
      <4>1. PICK j \in 1..i : /\ Speaks(w[j], d) /\ v = Says(w[j])
                              /\ \A k \in (j + 1)..i : ~Speaks(w[k], d)
        BY <3>2
      <4>2. j \in 1..(i - 1) /\ \A k \in (j + 1)..(i - 1) : ~Speaks(w[k], d)
        BY <1>3, <4>1
      <4> QED BY <4>1, <4>2 DEF HeldAt
    <3> QED BY <1>1, <2>2, <3>1, <3>2 DEF HeldAt
  <2> QED BY <1>3, <2>1, <2>2
<1> QED BY <1>2, <1>3

\* One message less: what it said is held.
LEMMA HeldAtTail ==
  ASSUME NEW S, NEW w \in Seq(S), w # <<>>, NEW h, NEW d, NEW v, NEW i \in 1..Len(w)
  PROVE  HeldAt(Tail(w), IF Speaks(Head(w), d) THEN Says(Head(w)) ELSE h, d, i, v)
           <=> HeldAt(w, h, d, i + 1, v)
<1> DEFINE x == Tail(w)
           g == IF Speaks(Head(w), d) THEN Says(Head(w)) ELSE h
<1>1. /\ Len(w) \in Nat /\ Head(w) = w[1]
      /\ \A k \in 1..(i - 1) : x[k] = w[k + 1]
  OBVIOUS
<1>2. ASSUME HeldAt(x, g, d, i, v) PROVE HeldAt(w, h, d, i + 1, v)
  <2>1. CASE (\A k \in 1..(i - 1) : ~Speaks(x[k], d)) /\ v = g
    <3>1. \A k \in 2..i : ~Speaks(w[k], d)
      <4> TAKE k \in 2..i
      <4>1. k - 1 \in 1..(i - 1) /\ (k - 1) + 1 = k
        OBVIOUS
      <4> QED BY <1>1, <2>1, <4>1
    <3>2. 1 \in 1..((i + 1) - 1)
      OBVIOUS
    <3>3. CASE Speaks(w[1], d)
      BY <1>1, <2>1, <3>1, <3>2, <3>3 DEF HeldAt
    <3>4. CASE ~Speaks(w[1], d)
      <4>1. \A k \in 1..((i + 1) - 1) : ~Speaks(w[k], d)
        BY <3>1, <3>4
      <4> QED BY <1>1, <2>1, <3>4, <4>1 DEF HeldAt
    <3> QED BY <3>3, <3>4
  <2>2. CASE \E j \in 1..(i - 1) : /\ Speaks(x[j], d) /\ v = Says(x[j])
                                   /\ \A k \in (j + 1)..(i - 1) : ~Speaks(x[k], d)
    <3>1. PICK j \in 1..(i - 1) : /\ Speaks(x[j], d) /\ v = Says(x[j])
                                  /\ \A k \in (j + 1)..(i - 1) : ~Speaks(x[k], d)
      BY <2>2
    <3>2. j + 1 \in 1..((i + 1) - 1) /\ Speaks(w[j + 1], d) /\ v = Says(w[j + 1])
      BY <1>1, <3>1
    <3>3. \A k \in ((j + 1) + 1)..((i + 1) - 1) : ~Speaks(w[k], d)
      <4> TAKE k \in ((j + 1) + 1)..((i + 1) - 1)
      <4>1. k - 1 \in (j + 1)..(i - 1) /\ k - 1 \in 1..(i - 1) /\ (k - 1) + 1 = k
        OBVIOUS
      <4> QED BY <1>1, <3>1, <4>1
    <3> QED BY <3>2, <3>3 DEF HeldAt
  <2> HIDE DEF x, g
  <2> QED BY <1>2, <2>1, <2>2 DEF HeldAt
<1>3. ASSUME HeldAt(w, h, d, i + 1, v) PROVE HeldAt(x, g, d, i, v)
  <2>1. (i + 1) - 1 = i
    OBVIOUS
  <2>2. CASE (\A k \in 1..i : ~Speaks(w[k], d)) /\ v = h
    <3>1. g = h /\ \A k \in 1..(i - 1) : ~Speaks(x[k], d)
      BY <1>1, <2>2
    <3> HIDE DEF x, g
    <3> QED BY <2>2, <3>1 DEF HeldAt
  <2>3. CASE \E j \in 1..i : /\ Speaks(w[j], d) /\ v = Says(w[j])
                             /\ \A k \in (j + 1)..i : ~Speaks(w[k], d)
    <3>1. PICK j \in 1..i : /\ Speaks(w[j], d) /\ v = Says(w[j])
                            /\ \A k \in (j + 1)..i : ~Speaks(w[k], d)
      BY <2>3
    <3>2. CASE j = 1
      <4>1. v = g /\ \A k \in 1..(i - 1) : ~Speaks(x[k], d)
        BY <1>1, <3>1, <3>2
      <4> HIDE DEF x, g
      <4> QED BY <4>1 DEF HeldAt
    <3>3. CASE j # 1
      <4>1. j - 1 \in 1..(i - 1) /\ (j - 1) + 1 = j
        BY <3>3
      <4>2. x[j - 1] = w[j]
        BY <1>1, <4>1
      <4>3. \A k \in ((j - 1) + 1)..(i - 1) : ~Speaks(x[k], d)
        BY <1>1, <3>1, <4>1
      <4> HIDE DEF x, g
      <4> QED BY <3>1, <4>1, <4>2, <4>3 DEF HeldAt
    <3> QED BY <3>2, <3>3
  <2> HIDE DEF x, g
  <2> QED BY <1>3, <2>1, <2>2, <2>3 DEF HeldAt
<1> QED BY <1>2, <1>3

----------------------------------------------------------------------------
(* What a load and its publication leave.                                  *)

\* A load gives the sources of a document and of its imports, or is unreadable.
LEMMA LoadType ==
  ASSUME TypeOK, NEW d \in Doc, NEW text \in Text \cup {Missing},
         text = Missing => disk[d] = Missing
  PROVE  /\ Load(d, text) \in Sources \cup {Unreadable}
         /\ Load(d, text) # Unreadable => Load(d, text)[d] = text
<1> DEFINE S == {d} \cup Imports[d]
           sources == [e \in S |-> IF e = d THEN text ELSE disk[e]]
<1>1. S \in SUBSET Doc /\ d \in S
  BY ImportsAssumption
<1>2. CASE Missing \in {disk[e] : e \in S}
  BY <1>2 DEF Load
<1>3. CASE Missing \notin {disk[e] : e \in S}
  <2>1. \A e \in S : disk[e] \in Text
    BY <1>1, <1>3 DEF TypeOK
  <2>2. text \in Text
    BY <1>1, <1>3
  <2>3. sources \in [S -> Text]
    BY <2>1, <2>2
  <2>4. sources \in Sources
    BY <1>1, <2>3 DEF Sources
  <2>5. Load(d, text) = sources
    BY <1>3 DEF Load
  <2> QED BY <1>1, <2>4, <2>5
<1> QED BY <1>2, <1>3

\* Publishing touches the diagnostics and the symbols of one document, and keeps its text.
LEMMA Published ==
  ASSUME NEW d \in Doc, NEW found \in Sources \cup {Unreadable},
         NEW open \in [Doc -> DocState \cup {Closed}],
         shown \in [Doc -> Sources \cup {Nothing, Unreadable}], Publish(d, found, open)
  PROVE  /\ shown' = [shown EXCEPT ![d] = found]
         /\ shown' \in [Doc -> Sources \cup {Nothing, Unreadable}]
         /\ docs' \in [Doc -> DocState \cup {Closed}]
         /\ \A e \in Doc : e # d => docs'[e] = open[e]
         /\ open[d] = Closed => docs'[d] = Closed
         /\ open[d] # Closed => /\ docs'[d] # Closed /\ docs'[d].text = open[d].text
                                /\ found # Unreadable => docs'[d].symbols = found
<1>1. CASE found = Unreadable \/ open[d] = Closed
  BY <1>1 DEF Publish
<1>2. CASE found # Unreadable /\ open[d] # Closed
  <2>1. open[d] \in DocState
    BY <1>2
  <2>2. [open[d] EXCEPT !.symbols = found] \in DocState
    BY <1>2, <2>1 DEF DocState
  <2>3. docs' = [open EXCEPT ![d] = [open[d] EXCEPT !.symbols = found]]
    BY <1>2 DEF Publish
  <2>4. docs'[d] = [open[d] EXCEPT !.symbols = found]
    BY <2>3
  <2>5. docs'[d].text = open[d].text /\ docs'[d].symbols = found
    BY <2>1, <2>4 DEF DocState
  <2> QED BY <1>2, <2>2, <2>3, <2>4, <2>5, SentinelsAssumption DEF Publish
<1> QED BY <1>1, <1>2

----------------------------------------------------------------------------
(* The editor, the wire and the documents.                                 *)

\* Whatever leaves the wire, the buffers and the texts of the documents alone.
LEMMA NothingSaid ==
  ASSUME Inv, UNCHANGED <<wire, buffer>>, \A d \in Doc : Held(d)' = Held(d)
  PROVE  Mirrors' /\ Expected'
BY DEF Inv, Mirrors, Expected

\* The editor sends a message that says what its buffer shows from now on.
LEMMA MessageSent ==
  ASSUME Inv, NEW m \in Message, wire' = Append(wire, m), docs' = docs,
         \A d \in Doc : buffer'[d] = IF Speaks(m, d) THEN Says(m) ELSE buffer[d],
         m.note \in {"didChange", "didSave"} => buffer[m.doc] # Closed
  PROVE  Mirrors' /\ Expected'
<1> DEFINE n == Len(wire)
<1>1. /\ wire \in Seq(Message) /\ n \in Nat /\ n + 1 \in Nat \ {0} /\ Len(wire') = n + 1
      /\ wire'[n + 1] = m /\ \A k \in 1..n : wire'[k] = wire[k]
  BY DEF Inv, TypeOK
<1>2. \A d \in Doc : Held(d)' = Held(d)
  BY DEF Held
<1>3. ASSUME NEW d \in Doc, NEW i \in 1..(n + 1), NEW v
      PROVE  HeldAt(wire', Held(d)', d, i, v) <=> HeldAt(wire, Held(d), d, i, v)
  <2>1. i \in Nat /\ \A k \in 1..(i - 1) : wire'[k] = wire[k]
    BY <1>1
  <2>2. HeldAt(wire', Held(d), d, i, v) <=> HeldAt(wire, Held(d), d, i, v)
    BY <2>1, HeldAtBelow
  <2> QED BY <1>2, <2>2
<1>4. ASSUME NEW d \in Doc
      PROVE  HeldAt(wire', Held(d)', d, n + 1, buffer[d])
  <2>1. HeldAt(wire, Held(d), d, n + 1, buffer[d]) /\ n + 1 \in 1..(n + 1)
    BY <1>1 DEF Inv, Mirrors
  <2> QED BY <1>3, <2>1
<1>5. Mirrors'
  <2> SUFFICES ASSUME NEW d \in Doc
               PROVE  HeldAt(wire', Held(d)', d, (n + 1) + 1, buffer'[d])
    BY <1>1 DEF Mirrors
  <2>1. HeldAt(wire', Held(d)', d, n + 1, buffer[d]) /\ wire'[n + 1] = m
    BY <1>1, <1>4
  <2>2. buffer'[d] = IF Speaks(wire'[n + 1], d) THEN Says(wire'[n + 1]) ELSE buffer[d]
    BY <2>1
  <2> HIDE DEF n
  <2>3. HeldAt(wire', Held(d)', d, (n + 1) + 1,
               IF Speaks(wire'[n + 1], d) THEN Says(wire'[n + 1]) ELSE buffer[d])
    BY <1>1, <2>1, HeldAtNext
  <2> QED BY <2>2, <2>3
<1>6. Expected'
  <2> SUFFICES ASSUME NEW d \in Doc, NEW i \in 1..(n + 1), wire'[i].doc = d,
                      wire'[i].note \in {"didChange", "didSave"},
                      HeldAt(wire', Held(d)', d, i, Closed)
               PROVE  FALSE
    BY <1>1 DEF Expected
  <2>1. CASE i \in 1..n
    <3>1. HeldAt(wire, Held(d), d, i, Closed)
      BY <1>3
    <3> QED BY <1>1, <2>1, <3>1 DEF Inv, Expected
  <2>2. CASE i = n + 1
    <3>1. buffer[d] = Closed
      BY <1>1, <1>4, <2>2, HeldAtIsOne
    <3> QED BY <1>1, <2>2, <3>1
  <2> QED BY <1>1, <2>1, <2>2
<1> QED BY <1>5, <1>6

\* The server reads a message and holds what it says.
LEMMA MessageReceived ==
  ASSUME Inv, wire # <<>>, wire' = Tail(wire), buffer' = buffer,
         \A d \in Doc : Held(d)' = IF Speaks(Head(wire), d) THEN Says(Head(wire)) ELSE Held(d)
  PROVE  Mirrors' /\ Expected'
<1> DEFINE n == Len(wire)
<1>1. /\ wire \in Seq(Message) /\ n \in Nat /\ n \in 1..n /\ Len(wire') = n - 1
      /\ \A k \in 1..(n - 1) : wire'[k] = wire[k + 1]
  BY DEF Inv, TypeOK
<1>2. ASSUME NEW d \in Doc, NEW i \in 1..n, NEW v
      PROVE  HeldAt(wire', Held(d)', d, i, v) <=> HeldAt(wire, Held(d), d, i + 1, v)
  BY <1>1, HeldAtTail
<1>3. Mirrors'
  <2> SUFFICES ASSUME NEW d \in Doc
               PROVE  HeldAt(wire', Held(d)', d, (n - 1) + 1, buffer[d])
    BY <1>1 DEF Mirrors
  <2>1. (n - 1) + 1 = n /\ HeldAt(wire, Held(d), d, n + 1, buffer[d])
    BY <1>1 DEF Inv, Mirrors
  <2> QED BY <1>1, <1>2, <2>1
<1>4. Expected'
  <2> SUFFICES ASSUME NEW d \in Doc, NEW i \in 1..(n - 1), wire'[i].doc = d,
                      wire'[i].note \in {"didChange", "didSave"},
                      HeldAt(wire', Held(d)', d, i, Closed)
               PROVE  FALSE
    BY <1>1 DEF Expected
  <2>1. i \in 1..n /\ i + 1 \in 1..n /\ wire'[i] = wire[i + 1]
    BY <1>1
  <2>2. HeldAt(wire, Held(d), d, i + 1, Closed)
    BY <1>2, <2>1
  <2> QED BY <2>1, <2>2 DEF Inv, Expected
<1> QED BY <1>3, <1>4

----------------------------------------------------------------------------

\* The first state satisfies the invariant.
LEMMA InitKeeps == Init => Inv
<1> SUFFICES ASSUME Init PROVE Inv
  OBVIOUS
<1>1. TypeOK
  BY PollAssumption DEF Init, TypeOK
<1>2. wire \in Seq(Message) /\ Len(wire) = 0 /\ \A d \in Doc : buffer[d] = Closed /\ Held(d) = Closed
  BY DEF Init, Held
<1>3. Mirrors /\ Expected /\ SavesOpen
  BY <1>2, HeldAtFirst DEF Init, Mirrors, Expected, SavesOpen
<1>4. ClosedIsBlank /\ ChangesShown /\ NothingWasDue /\ SymbolsFollowDiagnostics
  BY DEF Init, ClosedIsBlank, ChangesShown, NothingWasDue, SymbolsFollowDiagnostics
<1> QED BY <1>1, <1>3, <1>4 DEF Inv

\* The editor changes nothing that the server has.
LEMMA EditorKeeps ==
  ASSUME Inv, Editor
  PROVE  Inv'
<1>1. UNCHANGED <<docs, pending, shown, waited, quiet, lastNote>>
  BY DEF Editor, Open, Type, Write, TellSaved, Close, Ask, WriteFile, Send
<1>2. ClosedIsBlank' /\ ChangesShown' /\ NothingWasDue' /\ SymbolsFollowDiagnostics'
  BY <1>1 DEF Inv, ClosedIsBlank, ChangesShown, NothingWasDue, SymbolsFollowDiagnostics
<1>3. ASSUME TypeOK', Mirrors', Expected', SavesOpen'
      PROVE  Inv'
  BY <1>2, <1>3 DEF Inv
<1>4. ASSUME NEW m \in Message, Send(m), disk' \in [Doc -> Text \cup {Missing}],
             buffer' \in [Doc -> Text \cup {Closed}], saving' \in SUBSET Doc
      PROVE  TypeOK' /\ wire' = Append(wire, m)
  BY <1>4 DEF Send, Inv, TypeOK
<1>5. \A d \in Doc : Held(d)' = Held(d)
  BY <1>1 DEF Held
<1> SUFFICES ASSUME NEW d \in Doc,
                    \/ \E text \in Text : Open(d, text) \/ Type(d, text)
                    \/ \E text \in Text \cup {Missing} : WriteFile(d, text)
                    \/ Write(d) \/ TellSaved(d) \/ Close(d) \/ Ask(d)
             PROVE  Inv'
  BY DEF Editor
<1>6. CASE \E text \in Text : Open(d, text) \/ Type(d, text)
  <2>1. PICK text \in Text : Open(d, text) \/ Type(d, text)
    BY <1>6
  <2>2. PICK m \in Message :
          /\ Send(m) /\ m.doc = d /\ Speaks(m, d) /\ Says(m) = text /\ m.note # "didSave"
          /\ m.note = "didChange" => buffer[d] # Closed
    <3>1. CASE Open(d, text)
      <4>1. [note |-> "didOpen", doc |-> d, text |-> text] \in Message
        BY DEF Message
      <4> QED BY <3>1, <4>1 DEF Open, Speaks, Says
    <3>2. CASE Type(d, text)
      <4>1. [note |-> "didChange", doc |-> d, text |-> text] \in Message
        BY DEF Message
      <4> QED BY <3>2, <4>1 DEF Type, Speaks, Says
    <3> QED BY <2>1, <3>1, <3>2
  <2>3. buffer' = [buffer EXCEPT ![d] = text] /\ UNCHANGED <<disk, saving>>
    BY <2>1 DEF Open, Type
  <2>4. TypeOK' /\ wire' = Append(wire, m)
    BY <1>4, <2>2, <2>3 DEF Inv, TypeOK
  <2>5. \A e \in Doc : buffer'[e] = IF Speaks(m, e) THEN Says(m) ELSE buffer[e]
    BY <2>2, <2>3 DEF Speaks, Inv, TypeOK
  <2>6. Mirrors' /\ Expected'
    BY <1>1, <2>2, <2>4, <2>5, MessageSent
  <2>7. SavesOpen'
    BY <2>3, SentinelsAssumption DEF Inv, TypeOK, SavesOpen
  <2> QED BY <1>3, <2>4, <2>6, <2>7
<1>7. CASE \E text \in Text \cup {Missing} : WriteFile(d, text)
  <2>1. /\ disk' \in [Doc -> Text \cup {Missing}] /\ sends' = sends + 1
        /\ UNCHANGED <<buffer, saving, wire>>
    BY <1>7 DEF WriteFile, Inv, TypeOK
  <2>2. TypeOK' /\ SavesOpen'
    BY <1>1, <2>1 DEF Inv, TypeOK, SavesOpen
  <2> QED BY <1>3, <1>5, <2>1, <2>2, NothingSaid
<1>8. CASE Write(d)
  <2>1. /\ disk' \in [Doc -> Text \cup {Missing}] /\ saving' = saving \cup {d}
        /\ buffer[d] # Closed /\ UNCHANGED <<buffer, wire, sends>>
    BY <1>8 DEF Write, Inv, TypeOK
  <2>2. TypeOK' /\ SavesOpen'
    BY <1>1, <2>1 DEF Inv, TypeOK, SavesOpen
  <2> QED BY <1>3, <1>5, <2>1, <2>2, NothingSaid
<1>9. CASE TellSaved(d) \/ Ask(d)
  <2>1. PICK m \in Message :
          /\ Send(m) /\ m.doc = d /\ m.note \in {"didSave", "request"}
          /\ m.note = "didSave" => buffer[d] # Closed
    <3>1. [note |-> "didSave", doc |-> d] \in Message /\ [note |-> "request", doc |-> d] \in Message
      BY DEF Message
    <3> QED BY <1>9, <3>1 DEF TellSaved, Ask, Inv, SavesOpen
  <2>2. saving' \in SUBSET saving /\ UNCHANGED <<disk, buffer>>
    BY <1>9 DEF TellSaved, Ask
  <2>3. TypeOK' /\ wire' = Append(wire, m)
    BY <1>4, <2>1, <2>2 DEF Inv, TypeOK
  <2>4. Mirrors' /\ Expected'
    BY <1>1, <2>1, <2>2, <2>3, MessageSent DEF Speaks
  <2>5. SavesOpen'
    BY <2>2 DEF Inv, SavesOpen
  <2> QED BY <1>3, <2>3, <2>4, <2>5
<1>10. CASE Close(d)
  <2> DEFINE m == [note |-> "didClose", doc |-> d]
  <2>1. m \in Message /\ Speaks(m, d) /\ Says(m) = Closed /\ m.note = "didClose" /\ m.doc = d
    BY DEF Message, Speaks, Says
  <2>2. Send(m) /\ buffer' = [buffer EXCEPT ![d] = Closed] /\ d \notin saving /\ UNCHANGED <<disk, saving>>
    BY <1>10 DEF Close
  <2> HIDE DEF m
  <2>3. TypeOK' /\ wire' = Append(wire, m)
    BY <1>4, <2>1, <2>2 DEF Inv, TypeOK
  <2>4. \A e \in Doc : buffer'[e] = IF Speaks(m, e) THEN Says(m) ELSE buffer[e]
    BY <2>1, <2>2 DEF Speaks, Inv, TypeOK
  <2>5. Mirrors' /\ Expected'
    BY <1>1, <2>1, <2>3, <2>4, MessageSent
  <2>6. SavesOpen'
    BY <2>2 DEF Inv, TypeOK, SavesOpen
  <2> QED BY <1>3, <2>3, <2>5, <2>6
<1> QED BY <1>6, <1>7, <1>8, <1>9, <1>10

----------------------------------------------------------------------------
(* The server.                                                             *)

\* What any handler begins with.
LEMMA Received ==
  ASSUME Inv, NEW note \in Note, NEW d \in Doc, Receive(note, d)
  PROVE  /\ wire # <<>> /\ wire' = Tail(wire) /\ wire' \in Seq(Message)
         /\ Head(wire) \in Message /\ Head(wire).note = note /\ Head(wire).doc = d
         /\ note \in {"didOpen", "didChange"} => Head(wire).text \in Text
         /\ note \in {"didChange", "didSave"} => docs[d] # Closed
         /\ UNCHANGED <<disk, buffer, saving, sends>>
         /\ waited' = 0 /\ quiet' = 0 /\ NothingWasDue'
         /\ lastNote' \in [Doc -> Note \cup {"none"}]
         /\ \A e \in Doc : e # d \/ note = "request" => lastNote'[e] = lastNote[e]
         /\ note # "request" => lastNote'[d] = note
<1>1. /\ wire # <<>> /\ wire \in Seq(Message) /\ wire' = Tail(wire)
      /\ Head(wire).note = note /\ Head(wire).doc = d
      /\ waited' = 0 /\ quiet' = 0 /\ UNCHANGED <<disk, buffer, saving, sends>>
      /\ lastNote' = IF note = "request" THEN lastNote ELSE [lastNote EXCEPT ![d] = note]
  BY DEF Receive, Inv, TypeOK
<1>2. wire' \in Seq(Message) /\ Head(wire) \in Message /\ Head(wire) = wire[1] /\ 1 \in 1..Len(wire)
  BY <1>1
<1>3. note \in {"didOpen", "didChange"} => Head(wire).text \in Text
  BY <1>1, <1>2 DEF Message
<1>4. ASSUME note \in {"didChange", "didSave"}, docs[d] = Closed
      PROVE  FALSE
  <2>1. HeldAt(wire, Held(d), d, 1, Closed)
    BY <1>4, HeldAtFirst DEF Held
  <2> QED BY <1>1, <1>2, <1>4, <2>1 DEF Inv, Expected
<1>5. NothingWasDue'
  BY <1>1 DEF NothingWasDue
<1> QED BY <1>1, <1>2, <1>3, <1>4, <1>5 DEF Inv, TypeOK

\* Opening a document keeps it ...
LEMMA DidOpenKeeps ==
  ASSUME Inv, NEW d \in Doc, DidOpen(d)
  PROVE  Inv'
<1> DEFINE open == [docs EXCEPT ![d] = [text |-> Head(wire).text, symbols |-> Nothing]]
           found == Load(d, disk[d])
<1>1. Receive("didOpen", d) /\ pending' = [pending EXCEPT ![d] = Never] /\ Publish(d, found, open)
  BY DEF DidOpen, Settle, Revalidate
<1>2. "didOpen" \in Note
  BY DEF Note
<1>3. found \in Sources \cup {Unreadable}
  BY LoadType DEF Inv, TypeOK
<1>4. [text |-> Head(wire).text, symbols |-> Nothing] \in DocState
  BY <1>1, <1>2, Received DEF DocState
<1>5. open \in [Doc -> DocState \cup {Closed}] /\ open[d] # Closed /\ open[d].text = Head(wire).text
      /\ \A e \in Doc : e # d => open[e] = docs[e]
  BY <1>4, SentinelsAssumption DEF Inv, TypeOK
<1> HIDE DEF open, found
<1>6. /\ shown' = [shown EXCEPT ![d] = found]
      /\ shown' \in [Doc -> Sources \cup {Nothing, Unreadable}]
      /\ docs' \in [Doc -> DocState \cup {Closed}]
      /\ \A e \in Doc : e # d => docs'[e] = docs[e]
      /\ docs'[d] # Closed /\ docs'[d].text = Head(wire).text
      /\ found # Unreadable => docs'[d].symbols = found
  <2>1. shown \in [Doc -> Sources \cup {Nothing, Unreadable}]
    BY DEF Inv, TypeOK
  <2>2. open \in [Doc -> DocState \cup {Closed}]
    BY <1>5
  <2>3. /\ shown' = [shown EXCEPT ![d] = found]
        /\ shown' \in [Doc -> Sources \cup {Nothing, Unreadable}]
        /\ docs' \in [Doc -> DocState \cup {Closed}]
        /\ \A e \in Doc : e # d => docs'[e] = open[e]
        /\ open[d] # Closed => /\ docs'[d] # Closed /\ docs'[d].text = open[d].text
                               /\ found # Unreadable => docs'[d].symbols = found
    BY <1>1, <1>3, <2>1, <2>2, Published
  <2>4. /\ \A e \in Doc : e # d => docs'[e] = docs[e]
        /\ docs'[d] # Closed /\ docs'[d].text = Head(wire).text
        /\ found # Unreadable => docs'[d].symbols = found
    BY <1>5, <2>3
  <2> QED BY <2>3, <2>4
<1>7. TypeOK' /\ NothingWasDue' /\ SavesOpen'
  BY <1>1, <1>2, <1>6, Received, PollAssumption DEF Inv, TypeOK, SavesOpen
<1>8. \A e \in Doc : Held(e)' = IF Speaks(Head(wire), e) THEN Says(Head(wire)) ELSE Held(e)
  BY <1>1, <1>2, <1>6, Received DEF Held, Speaks, Says
<1>9. Mirrors' /\ Expected'
  BY <1>1, <1>2, <1>8, Received, MessageReceived
<1>10. ClosedIsBlank' /\ ChangesShown' /\ SymbolsFollowDiagnostics'
  BY <1>1, <1>2, <1>6, Received
     DEF Inv, TypeOK, ClosedIsBlank, ChangesShown, SymbolsFollowDiagnostics
<1> QED BY <1>7, <1>9, <1>10 DEF Inv

\* ... so does a change, which sets a deadline ...
LEMMA DidChangeKeeps ==
  ASSUME Inv, NEW d \in Doc, DidChange(d)
  PROVE  Inv'
<1>1. Receive("didChange", d) /\ "didChange" \in Note /\ shown' = shown
  BY DEF DidChange, Note
<1>2. docs[d] # Closed /\ docs[d] \in DocState /\ Head(wire).text \in Text
  BY <1>1, Received DEF Inv, TypeOK
<1>3. docs' = [docs EXCEPT ![d] = [docs[d] EXCEPT !.text = Head(wire).text]]
      /\ pending' = [pending EXCEPT ![d] = Debounce]
  BY <1>2 DEF DidChange
<1>4. [docs[d] EXCEPT !.text = Head(wire).text] \in DocState
  BY <1>2 DEF DocState
<1>5. /\ docs' \in [Doc -> DocState \cup {Closed}]
      /\ docs'[d] # Closed /\ docs'[d].text = Head(wire).text /\ docs'[d].symbols = docs[d].symbols
      /\ \A e \in Doc : e # d => docs'[e] = docs[e]
  BY <1>2, <1>3, <1>4, SentinelsAssumption DEF Inv, TypeOK, DocState
<1>6. pending' \in [Doc -> Int \cup {Never}] /\ pending'[d] # Never
  BY <1>3, DebounceAssumption, SentinelsAssumption DEF Inv, TypeOK
<1>7. TypeOK' /\ NothingWasDue' /\ SavesOpen'
  BY <1>1, <1>5, <1>6, Received, PollAssumption DEF Inv, TypeOK, SavesOpen
<1>8. \A e \in Doc : Held(e)' = IF Speaks(Head(wire), e) THEN Says(Head(wire)) ELSE Held(e)
  BY <1>1, <1>5, Received DEF Held, Speaks, Says
<1>9. Mirrors' /\ Expected'
  BY <1>1, <1>8, Received, MessageReceived
<1>10. ClosedIsBlank' /\ ChangesShown' /\ SymbolsFollowDiagnostics'
  BY <1>1, <1>2, <1>3, <1>5, <1>6, Received
     DEF Inv, TypeOK, ClosedIsBlank, ChangesShown, SymbolsFollowDiagnostics
<1> QED BY <1>7, <1>9, <1>10 DEF Inv

\* ... a save, which reparses now ...
LEMMA DidSaveKeeps ==
  ASSUME Inv, NEW d \in Doc, DidSave(d)
  PROVE  Inv'
<1> DEFINE found == Load(d, disk[d])
<1>1. /\ Receive("didSave", d) /\ "didSave" \in Note
      /\ pending' = [pending EXCEPT ![d] = Never] /\ Publish(d, found, docs)
  BY DEF DidSave, Settle, Revalidate, Note
<1>2. found \in Sources \cup {Unreadable}
  BY LoadType DEF Inv, TypeOK
<1> HIDE DEF found
<1>3. docs[d] # Closed
  BY <1>1, Received
<1>4. /\ shown' = [shown EXCEPT ![d] = found]
      /\ shown' \in [Doc -> Sources \cup {Nothing, Unreadable}]
      /\ docs' \in [Doc -> DocState \cup {Closed}]
      /\ \A e \in Doc : e # d => docs'[e] = docs[e]
      /\ docs'[d] # Closed /\ docs'[d].text = docs[d].text
      /\ found # Unreadable => docs'[d].symbols = found
  <2>1. /\ shown \in [Doc -> Sources \cup {Nothing, Unreadable}]
        /\ docs \in [Doc -> DocState \cup {Closed}]
    BY DEF Inv, TypeOK
  <2> QED BY <1>1, <1>2, <1>3, <2>1, Published
<1>5. TypeOK' /\ NothingWasDue' /\ SavesOpen'
  BY <1>1, <1>4, Received, PollAssumption DEF Inv, TypeOK, SavesOpen
<1>6. \A e \in Doc : Held(e)' = IF Speaks(Head(wire), e) THEN Says(Head(wire)) ELSE Held(e)
  BY <1>1, <1>3, <1>4, Received DEF Held, Speaks, Says
<1>7. Mirrors' /\ Expected'
  BY <1>1, <1>6, Received, MessageReceived
<1>8. ClosedIsBlank' /\ ChangesShown' /\ SymbolsFollowDiagnostics'
  BY <1>1, <1>4, Received
     DEF Inv, TypeOK, ClosedIsBlank, ChangesShown, SymbolsFollowDiagnostics
<1> QED BY <1>5, <1>7, <1>8 DEF Inv

\* ... a close, which clears what is shown ...
LEMMA DidCloseKeeps ==
  ASSUME Inv, NEW d \in Doc, DidClose(d)
  PROVE  Inv'
<1>1. /\ Receive("didClose", d) /\ "didClose" \in Note
      /\ pending' = [pending EXCEPT ![d] = Never]
      /\ docs' = [docs EXCEPT ![d] = Closed] /\ shown' = [shown EXCEPT ![d] = Nothing]
  BY DEF DidClose, Settle, Note
<1>2. TypeOK' /\ NothingWasDue' /\ SavesOpen'
  BY <1>1, Received, PollAssumption DEF Inv, TypeOK, SavesOpen
<1>3. \A e \in Doc : Held(e)' = IF Speaks(Head(wire), e) THEN Says(Head(wire)) ELSE Held(e)
  BY <1>1, Received DEF Held, Speaks, Says, Inv, TypeOK
<1>4. Mirrors' /\ Expected'
  BY <1>1, <1>3, Received, MessageReceived
<1>5. ClosedIsBlank' /\ ChangesShown' /\ SymbolsFollowDiagnostics'
  BY <1>1, Received DEF Inv, TypeOK, ClosedIsBlank, ChangesShown, SymbolsFollowDiagnostics
<1> QED BY <1>2, <1>4, <1>5 DEF Inv

\* ... and a request, which changes nothing that is held.
LEMMA AnswerKeeps ==
  ASSUME Inv, NEW d \in Doc, Answer(d)
  PROVE  Inv'
<1>1. Receive("request", d) /\ "request" \in Note /\ UNCHANGED <<docs, pending, shown>>
  BY DEF Answer, Note
<1>2. TypeOK' /\ NothingWasDue' /\ SavesOpen'
  BY <1>1, Received, PollAssumption DEF Inv, TypeOK, SavesOpen
<1>3. \A e \in Doc : Held(e)' = IF Speaks(Head(wire), e) THEN Says(Head(wire)) ELSE Held(e)
  BY <1>1, Received DEF Held, Speaks
<1>4. Mirrors' /\ Expected'
  BY <1>1, <1>3, Received, MessageReceived
<1>5. ClosedIsBlank' /\ ChangesShown' /\ SymbolsFollowDiagnostics'
  BY <1>1, Received DEF Inv, TypeOK, ClosedIsBlank, ChangesShown, SymbolsFollowDiagnostics
<1> QED BY <1>2, <1>4, <1>5 DEF Inv

\* A reparse reads the text that the server holds at that moment.
LEMMA FireKeeps ==
  ASSUME Inv, NEW d \in Doc, Fire(d)
  PROVE  Inv'
<1> DEFINE found == Load(d, docs[d].text)
<1>1. /\ pending[d] # Never /\ pending' = [pending EXCEPT ![d] = Never] /\ RevalidateOverlay(d)
      /\ UNCHANGED <<disk, buffer, saving, wire, sends, waited, quiet, lastNote>>
  BY DEF Fire, Due, Settle
<1>2. docs[d] # Closed /\ docs[d] \in DocState
  BY <1>1 DEF Inv, TypeOK, ClosedIsBlank
<1>3. docs[d].text \in Text
  BY <1>2 DEF DocState
<1>4. Publish(d, found, docs)
  BY <1>1, <1>2 DEF RevalidateOverlay
<1>5. found \in Sources \cup {Unreadable} /\ (found # Unreadable => found[d] = docs[d].text)
  BY <1>3, LoadType, SentinelsAssumption DEF Inv
<1> HIDE DEF found
<1>6. /\ shown' = [shown EXCEPT ![d] = found]
      /\ shown' \in [Doc -> Sources \cup {Nothing, Unreadable}]
      /\ docs' \in [Doc -> DocState \cup {Closed}]
      /\ \A e \in Doc : e # d => docs'[e] = docs[e]
      /\ docs'[d] # Closed /\ docs'[d].text = docs[d].text
      /\ found # Unreadable => docs'[d].symbols = found
  <2>1. /\ shown \in [Doc -> Sources \cup {Nothing, Unreadable}]
        /\ docs \in [Doc -> DocState \cup {Closed}]
    BY DEF Inv, TypeOK
  <2> QED BY <1>2, <1>4, <1>5, <2>1, Published
<1>7. TypeOK' /\ NothingWasDue' /\ SavesOpen'
  BY <1>1, <1>6 DEF Inv, TypeOK, NothingWasDue, SavesOpen
<1>8. Mirrors' /\ Expected'
  <2>1. \A e \in Doc : Held(e)' = Held(e)
    BY <1>2, <1>6 DEF Held
  <2> QED BY <1>1, <2>1, NothingSaid
<1>9. ClosedIsBlank' /\ ChangesShown' /\ SymbolsFollowDiagnostics'
  BY <1>1, <1>5, <1>6
     DEF Inv, TypeOK, ClosedIsBlank, ChangesShown, SymbolsFollowDiagnostics
<1> QED BY <1>7, <1>8, <1>9 DEF Inv

\* Time passes.
LEMMA WaitKeeps ==
  ASSUME Inv, PollAgain \/ Tick
  PROVE  Inv'
<1>1. UNCHANGED <<disk, buffer, saving, wire, sends, docs, shown, lastNote>>
      /\ \A d \in Doc : Held(d)' = Held(d)
  BY DEF PollAgain, Tick, Held
<1>2. /\ pending' \in [Doc -> Int \cup {Never}]
      /\ \A d \in Doc : pending'[d] = Never <=> pending[d] = Never
  BY SentinelsAssumption DEF PollAgain, Tick, Inv, TypeOK
<1>3. waited' \in 0..Poll /\ quiet' \in 0..(Poll + 1) /\ NothingWasDue'
  <2>1. CASE PollAgain
    BY <2>1, PollAssumption DEF PollAgain, Due, Inv, TypeOK, NothingWasDue
  <2>2. CASE Tick
    <3>1. /\ waited < Poll /\ waited' = waited + 1
          /\ quiet' = IF quiet > Poll THEN quiet ELSE quiet + 1
          /\ \A d \in Doc : pending[d] # Never => pending'[d] = pending[d] - 1
      BY <2>2 DEF Tick
    <3>2. quiet' >= waited' /\ (quiet' > waited' => quiet > waited)
      BY <3>1, PollAssumption DEF Inv, TypeOK, NothingWasDue
    <3>3. \A d \in Doc : pending'[d] # Never => pending[d] \in Int /\ pending'[d] + waited' = pending[d] + waited
      BY <1>2, <3>1, PollAssumption DEF Inv, TypeOK
    <3> QED BY <1>2, <3>1, <3>2, <3>3, PollAssumption DEF Inv, TypeOK, NothingWasDue
  <2> QED BY <2>1, <2>2
<1>4. TypeOK' /\ SavesOpen' /\ ClosedIsBlank' /\ ChangesShown' /\ SymbolsFollowDiagnostics'
  BY <1>1, <1>2, <1>3
     DEF Inv, TypeOK, SavesOpen, ClosedIsBlank, ChangesShown, SymbolsFollowDiagnostics
<1> QED BY <1>1, <1>3, <1>4, NothingSaid DEF Inv

----------------------------------------------------------------------------

\* Every step keeps the invariant.
THEOREM Inductive == Inv /\ [Next]_vars => Inv'
<1> SUFFICES ASSUME Inv, [Next]_vars PROVE Inv'
  OBVIOUS
<1>1. CASE Editor
  BY <1>1, EditorKeeps
<1>2. CASE Server
  BY <1>2, DidOpenKeeps, DidChangeKeeps, DidSaveKeeps, DidCloseKeeps, AnswerKeeps, FireKeeps,
     WaitKeeps DEF Server
<1>3. CASE Tick
  BY <1>3, WaitKeeps
<1>4. CASE UNCHANGED vars
  <2>1. \A d \in Doc : Held(d)' = Held(d)
    BY <1>4 DEF vars, Held
  <2> QED
    BY <1>4, <2>1, NothingSaid
       DEF vars, Inv, TypeOK, SavesOpen, ClosedIsBlank, ChangesShown, NothingWasDue,
           SymbolsFollowDiagnostics
<1> QED BY <1>1, <1>2, <1>3, <1>4 DEF Next

\* The invariant holds in every behaviour.
THEOREM Invariance == Spec => []Inv
BY InitKeeps, Inductive, PTL DEF Spec

\* Every variable keeps its type, the published sources included.
THEOREM TypeCorrect == Spec => []TypeOK
<1>1. Inv => TypeOK
  BY DEF Inv
<1> QED BY <1>1, Invariance, PTL

\* Once the server has settled, an edited document shows the diagnostics of the text in the
\* editor and a closed one shows nothing (did_change, revalidate_overlay, did_close).
THEOREM BufferIsShown == Spec => []ShowsTheBuffer
<1>1. Inv => ShowsTheBuffer
  <2> SUFFICES ASSUME Inv, NEW d \in Doc, Settled(d)
               PROVE  /\ buffer[d] # Closed /\ lastNote[d] = "didChange" /\ shown[d] # Unreadable
                           => shown[d][d] = buffer[d]
                      /\ buffer[d] = Closed => shown[d] = Nothing
    BY DEF ShowsTheBuffer
  <2>1. wire = <<>> /\ Len(wire) + 1 = 1 /\ pending[d] = Never
    BY DEF Settled
  <2>2. HeldAt(wire, Held(d), d, 1, buffer[d])
    BY <2>1 DEF Inv, Mirrors
  <2>3. buffer[d] = Held(d)
    BY <2>2, HeldAtFirst
  <2>4. docs[d] = Closed \/ docs[d].text # Closed
    BY SentinelsAssumption DEF Inv, TypeOK, DocState
  <2> QED BY <2>1, <2>3, <2>4 DEF Held, Inv, ClosedIsBlank, ChangesShown
<1> QED BY <1>1, Invariance, PTL

\* A reparse is late by less than a poll, or the last message came within one (main_loop).
THEOREM ReparseIsInTime == Spec => []FiresInTime
<1>1. Inv => FiresInTime
  BY PollAssumption DEF Inv, TypeOK, NothingWasDue, FiresInTime
<1> QED BY <1>1, Invariance, PTL

\* Completion and hover answer from the sources that the diagnostics on screen are of.
THEOREM SymbolsFollow == Spec => []SymbolsFollowDiagnostics
<1>1. Inv => SymbolsFollowDiagnostics
  BY DEF Inv
<1> QED BY <1>1, Invariance, PTL
=============================================================================
