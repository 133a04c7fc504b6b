------------------------------- MODULE SmartPage ------------------------------
(***************************************************************************)
(* The Java web server's page: smartInjectionHandler puts the results of   *)
(* its functions where an .shtml file has their markers, and               *)
(* httpResponseBuilder writes the page after its length. A text is a       *)
(* sequence of pieces: a marker, a stretch of ASCII text, or a character   *)
(* that UTF-8 writes with two bytes.                                       *)
(***************************************************************************)
EXTENDS Naturals, Sequences, SequencesExt

CONSTANT MaxPieces   \* bound: pieces of a file

ASSUME MaxPiecesAssumption == MaxPieces \in Nat

(* In the order of listOfAvailablesFunctions. *)
Functions == <<"movieMark", "showMark", "mailMark", "unsetMark">>
Marks == {Functions[i] : i \in DOMAIN Functions}

Texts == {"ascii", "accent"}
Htmls == {"movie list", "movie list with accents", "error", "to_implement", "null"}
Accented == {"accent", "movie list with accents"}
Thrown == "thrown"

VARIABLES
  file,      \* the file of the page
  isSmart,   \* its name ends in .shtml
  cServer,   \* what the C server does when it is asked, see functionCaller
  pc,        \* "inject", "send", "sent", or "thrown"
  next,      \* index of the next function of the list
  buff, builder,
  length,    \* Content-Length
  wire       \* the bytes that follow the header

fileVars == <<file, isSmart, cServer>>
vars == <<fileVars, pc, next, buff, builder, length, wire>>

PageTypeOK ==
  /\ file \in Seq(Marks \cup Texts) /\ isSmart \in BOOLEAN
  /\ cServer \in {"lists", "accents", "dies", "absent"}
  /\ pc \in {"inject", "send", "sent", Thrown}
  /\ next \in 1..Len(Functions) + 1
  /\ buff \in Seq(Marks \cup Texts \cup Htmls) /\ builder \in Seq(Marks \cup Texts \cup Htmls)
  /\ length \in Nat
  /\ wire \in Seq({"low", "high", "sign", "lead", "tail"})

Init ==
  /\ file \in BoundedSeq(Marks \cup Texts, MaxPieces) /\ isSmart \in BOOLEAN
  /\ cServer \in {"lists", "accents", "dies", "absent"}
  /\ pc = IF isSmart THEN "inject" ELSE "send"
  /\ next = 1
  /\ buff = file /\ builder = <<>>
  /\ length = 0 /\ wire = <<>>

-----------------------------------------------------------------------------
(* smartInjectionHandler. *)

(* getShowList adds to a payload that nobody made, once it is connected;   *)
(* a C server that dies over a request ends the stream, which becomes a    *)
(* negative array size. The text of the last function is the message it    *)
(* prints, and null is appended as a word.                                 *)
MovieList == [lists |-> "movie list", accents |-> "movie list with accents",
              dies |-> Thrown, absent |-> "error"]
functionCaller(mark) ==
  CASE mark = "movieMark" -> MovieList[cServer]
    [] mark = "showMark"  -> IF cServer = "absent" THEN "error" ELSE Thrown
    [] mark = "mailMark"  -> "to_implement"
    [] mark = "unsetMark" -> "null"

(* String.split: what lies before the first marker, and what lies between  *)
(* it and the second or the end; there is no second part when nothing but  *)
(* markers follows, for trailing empty parts are dropped.                  *)
First(text, mark) == CHOOSE i \in DOMAIN text : text[i] = mark /\ \A j \in 1..(i-1) : text[j] # mark
After(text, mark) == SubSeq(text, First(text, mark) + 1, Len(text))
UpTo(text, mark) == IF Contains(text, mark) THEN SubSeq(text, 1, First(text, mark) - 1) ELSE text
HasTwoParts(text, mark) == \E i \in DOMAIN After(text, mark) : After(text, mark)[i] # mark

Step(b) ==
  /\ next' = next + 1
  /\ pc' = IF next = Len(Functions) THEN "send" ELSE "inject"
  /\ builder' = b
  /\ UNCHANGED <<fileVars, length, wire>>

Skip ==
  /\ pc = "inject" /\ ~Contains(buff, Functions[next])
  /\ Step(builder)
  /\ UNCHANGED buff

(* Mutants: the parts are written in the wrong order; a function can be    *)
(* left unfinished; an array of one part is taken for two.                 *)
InjectHtmlFirst ==
  /\ pc = "inject"
  /\ LET mark == Functions[next]
     IN /\ Contains(buff, mark) /\ functionCaller(mark) # Thrown /\ HasTwoParts(buff, mark)
        /\ Step(builder \o <<functionCaller(mark)>> \o UpTo(buff, mark)
                        \o UpTo(After(buff, mark), mark))
        /\ buff' = builder'
InjectThrown ==
  /\ pc = "inject"
  /\ LET mark == Functions[next]
     IN /\ Contains(buff, mark) /\ HasTwoParts(buff, mark)
        /\ Step(builder \o UpTo(buff, mark) \o <<functionCaller(mark)>>
                        \o UpTo(After(buff, mark), mark))
        /\ buff' = builder'

(* One builder serves all functions: what a second one writes comes after  *)
(* what the first one wrote.                                               *)
Inject ==
  /\ pc = "inject"
  /\ LET mark == Functions[next]
     IN /\ Contains(buff, mark) /\ functionCaller(mark) # Thrown /\ HasTwoParts(buff, mark)
        /\ Step(builder \o UpTo(buff, mark) \o <<functionCaller(mark)>>
                        \o UpTo(After(buff, mark), mark))
        /\ buff' = builder'

Throw ==
  /\ pc = "inject" /\ pc' = Thrown
  /\ UNCHANGED <<fileVars, next, buff, builder, length, wire>>

(* Mutant: a marker at the beginning is taken for one without a first part.*)
InjectFailsInFront ==
  /\ pc = "inject"
  /\ LET mark == Functions[next]
     IN /\ Contains(buff, mark)
        /\ functionCaller(mark) = Thrown \/ ~HasTwoParts(buff, mark) \/ Head(buff) = mark
  /\ Throw

(* The function throws, or split returned fewer than two parts. *)
InjectFails ==
  /\ pc = "inject"
  /\ LET mark == Functions[next]
     IN /\ Contains(buff, mark)
        /\ functionCaller(mark) = Thrown \/ ~HasTwoParts(buff, mark)
  /\ Throw

-----------------------------------------------------------------------------
(* httpResponseBuilder. *)

(* getBytes: an accented character has two bytes of the upper half. *)
Bytes(text) == FlattenSeq([i \in DOMAIN text |->
                             IF text[i] \in Accented THEN <<"high", "high">> ELSE <<"low">>])

(* Each byte is made a char, with its sign, and the writer encodes that    *)
(* char again: from the upper half it has three bytes.                     *)
Encoded(bytes) == FlattenSeq([i \in DOMAIN bytes |->
                                IF bytes[i] = "high" THEN <<"sign", "lead", "tail">> ELSE <<"low">>])

(* Mutant: the length is that of the file. *)
SendFileSize ==
  /\ pc = "send" /\ pc' = "sent"
  /\ length' = Len(Bytes(file))
  /\ wire' = Encoded(Bytes(buff))
  /\ UNCHANGED <<fileVars, next, buff, builder>>

Send ==
  /\ pc = "send" /\ pc' = "sent"
  /\ length' = Len(Bytes(buff))
  /\ wire' = Encoded(Bytes(buff))
  /\ UNCHANGED <<fileVars, next, buff, builder>>

Next == Skip \/ Inject \/ InjectFails \/ Send

Spec == Init /\ [][Next]_vars

-----------------------------------------------------------------------------
(* Properties. *)

(* The page that the markers describe. *)
Expand(text) == [i \in DOMAIN text |->
                   IF text[i] \in Marks THEN functionCaller(text[i]) ELSE text[i]]
Marked == {i \in DOMAIN file : file[i] \in Marks}

(* A smart page that could be made is the file with its markers replaced   *)
(* when the file has one marker; with more of them, of one kind or of      *)
(* several, something is lost or repeated every time. Other files are sent *)
(* with their markers.                                                     *)
OneMarkerOnly ==
  pc \in {"send", "sent"} =>
    IF isSmart THEN buff = Expand(file) <=> \A i, j \in Marked : i = j
               ELSE buff = file

(* No page is lost to the injection without a cause that can be seen: a    *)
(* function that throws, or a marker with no text between it and the end   *)
(* or the next marker.                                                     *)
Bare(i) == i = Len(file) \/ i + 1 \in Marked
ThrowsForCause ==
  pc = Thrown => \E i \in Marked : functionCaller(file[i]) = Thrown \/ Bare(i)

(* A browser that reads the length it was told gets the bytes of the page  *)
(* exactly when all of them are ASCII, and is never told more than is sent.*)
LengthTellsAscii ==
  pc = "sent" => /\ length <= Len(wire)
                 /\ SubSeq(wire, 1, length) = Bytes(buff) <=> Range(buff) \cap Accented = {}
                 /\ length = Len(wire) <=> Range(buff) \cap Accented = {}
=============================================================================
