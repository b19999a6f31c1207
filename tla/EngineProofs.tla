---------------------------- MODULE EngineProofs ----------------------------
(***************************************************************************)
(* What the engine promises about its files, its menu and its media, for   *)
(* files of any length, any number of calls and any remote description.    *)
(*                                                                         *)
(* The two parsers and the menu are proved correct on their own; Engine    *)
(* is then shown to take no step that either of them could not take, so    *)
(* that all of it holds while the engine starts and runs.                  *)
(***************************************************************************)
EXTENDS Engine, FiniteSetTheorems, SequenceTheorems, TLAPS

-----------------------------------------------------------------------------
(* ConfigFile: sipcfg.ini. *)

\* The steps of parseConfigFile keep the types of its variables.
THEOREM TypeCorrect == Spec => []TypeOK
<1>1. Init => TypeOK
  <2> SUFFICES ASSUME Init PROVE TypeOK
    OBVIOUS
  <2>1. PICK n \in Nat : file \in [1 .. n -> Line]
    BY ConfigConstants DEF Init
  <2>2. file \in Seq(Line)
    BY <2>1
  <2>3. line \in 1 .. Len(file) + 1
    BY <2>2 DEF Init
  <2> QED
    BY <2>2, <2>3 DEF Init, TypeOK, Form
<1>2. TypeOK /\ [Next]_vars => TypeOK'
  <2> SUFFICES ASSUME TypeOK, [Next]_vars PROVE TypeOK'
    OBVIOUS
  <2> USE DEF TypeOK
  <2>1. CASE ReadOption
    <3> DEFINE l == file[line]
    <3>1. l \in Line /\ line' \in 1 .. Len(file') + 1
      BY <2>1 DEF ReadOption, Reading
    <3>2. CASE HandleText(l)
      <4>1. l.form \in Form
        BY <3>1, <3>2 DEF HandleText, Line, TextOption
      <4> QED
        BY <2>1, <3>1, <3>2, <4>1 DEF ReadOption, HandleText
    <3>3. CASE HandleDisableNat(l)
      BY <2>1, <3>1, <3>3 DEF ReadOption, HandleDisableNat
    <3>4. CASE HandleInput(l)
      <4>1. SwitchesOf(l.value) \subseteq {"video", "usb", "headset", "file", "test"}
        BY DEF SwitchesOf
      <4> HIDE DEF l
      <4> QED
        BY <2>1, <3>1, <3>4, <4>1 DEF ReadOption, HandleInput
    <3>5. CASE HandleTest(l)
      BY <2>1, <3>1, <3>5 DEF ReadOption, HandleTest
    <3> QED
      BY <2>1, <3>1, <3>2, <3>3, <3>4, <3>5 DEF ReadOption, HandleOption
  <2>2. CASE SkipComment
    BY <2>2 DEF SkipComment, Reading
  <2>3. CASE GiveUp
    BY <2>3 DEF GiveUp
  <2>4. CASE EndOfFile
    BY <2>4 DEF EndOfFile
  <2>5. CASE UNCHANGED vars
    BY <2>5 DEF vars
  <2> QED
    BY <2>1, <2>2, <2>3, <2>4, <2>5 DEF Next
<1> QED
  BY <1>1, <1>2, PTL DEF Spec

\* The last line about NAT traversal decides about it, in a file of any length.
THEOREM NatFollowsFile == Spec => []NatIsLastLine
<1> DEFINE Servers == {k \in 1 .. line - 1 : file[k].option = "stunserver"}
           Disables == {k \in 1 .. line - 1 : file[k].option = "disablenat"
                                             /\ file[k].value = "yes"}
           On == \E k \in Servers : \A j \in Disables : j < k
<1>1. Init => NatIsLastLine
  BY DEF Init, NatIsLastLine, Says
<1>2. TypeOK /\ NatIsLastLine /\ [Next]_vars => NatIsLastLine'
  <2> SUFFICES ASSUME TypeOK, configNat <=> On, [Next]_vars
               PROVE  (configNat <=> On)'
    BY DEF NatIsLastLine, Says
  <2> DEFINE l == file[line]
  <2>0. line \in Nat \ {0}
    BY DEF TypeOK
  <2>1. CASE line' = line + 1 /\ file' = file /\ configNat' = configNat
             /\ l.option # "stunserver" /\ ~(l.option = "disablenat" /\ l.value = "yes")
    <3>1. Servers' = Servers /\ Disables' = Disables
      BY <2>0, <2>1
    <3> QED
      BY <2>1, <3>1
  <2>2. CASE ReadOption /\ l.option = "stunserver"
    <3>1. configNat' /\ line' = line + 1 /\ file' = file
      BY <2>2 DEF ReadOption, HandleOption, HandleText, HandleDisableNat, HandleInput,
                  HandleTest, TypeOK
    <3>2. line \in Servers'
      BY <2>0, <2>2, <3>1
    <3>3. \A j \in Disables' : j < line
      BY <2>0, <2>2, <3>1
    <3> QED
      BY <3>1, <3>2, <3>3
  <2>3. CASE ReadOption /\ l.option = "disablenat" /\ l.value = "yes"
    <3>1. ~configNat' /\ line' = line + 1 /\ file' = file
      BY <2>3 DEF ReadOption, HandleOption, HandleText, HandleDisableNat, HandleInput,
                  HandleTest, TextOption
    <3>2. line \in Disables'
      BY <2>0, <2>3, <3>1
    <3>3. \A k \in Servers' : ~(line < k)
      BY <2>0, <3>1
    <3> QED
      BY <3>1, <3>2, <3>3
  <2>4. CASE ReadOption /\ l.option # "stunserver"
             /\ ~(l.option = "disablenat" /\ l.value = "yes")
    <3>1. configNat' = configNat
      BY <2>4 DEF ReadOption, HandleOption, HandleText, HandleDisableNat, HandleInput,
                  HandleTest, TypeOK
    <3> QED
      BY <2>1, <2>4, <3>1 DEF ReadOption
  <2>5. CASE SkipComment
    BY <2>1, <2>5 DEF SkipComment
  <2>6. CASE GiveUp \/ EndOfFile \/ UNCHANGED vars
    BY <2>6 DEF GiveUp, EndOfFile, vars
  <2> QED
    BY <2>2, <2>3, <2>4, <2>5, <2>6 DEF Next
<1> QED
  BY <1>1, <1>2, TypeCorrect, PTL DEF Spec

\* Video is never configured without USB, in a file of any length.
THEOREM VideoNeedsUsb == Spec => []VideoHasUsb
<1>1. Init => VideoHasUsb
  BY DEF Init, VideoHasUsb
<1>2. VideoHasUsb /\ [Next]_vars => VideoHasUsb'
  <2> SUFFICES ASSUME VideoHasUsb, [Next]_vars PROVE VideoHasUsb'
    OBVIOUS
  <2> USE DEF VideoHasUsb
  <2>1. CASE ReadOption
    <3> DEFINE l == file[line]
    <3>1. CASE HandleInput(l)
      BY <3>1 DEF HandleInput, SwitchesOf
    <3>2. CASE HandleTest(l)
      BY <3>2 DEF HandleTest
    <3>3. CASE UNCHANGED switches
      BY <3>3
    <3> QED
      BY <2>1, <3>1, <3>2, <3>3 DEF ReadOption, HandleOption, HandleText,
                                    HandleDisableNat
  <2>2. CASE SkipComment \/ GiveUp \/ EndOfFile \/ UNCHANGED vars
    BY <2>2 DEF SkipComment, GiveUp, EndOfFile, vars
  <2> QED
    BY <2>1, <2>2 DEF Next
<1> QED
  BY <1>1, <1>2, PTL DEF Spec

\* Each text option is what the last line naming it says, in a file of any
\* length: the parser accumulates nothing and forgets nothing.
THEOREM TextIsLastLine == Spec => []LastLineWins
<1> USE DEF LastLineWins, Says
<1>1. Init => LastLineWins
  BY DEF Init
<1>2. TypeOK /\ LastLineWins /\ [Next]_vars => LastLineWins'
  <2> SUFFICES ASSUME TypeOK, LastLineWins, [Next]_vars PROVE LastLineWins'
    OBVIOUS
  <2>1. CASE line' = line + 1 /\ file' = file /\ Reading
             /\ file[line].option \notin TextOption /\ text' = text
    <3> SUFFICES ASSUME NEW o \in TextOption
                 PROVE  LET lines == {k \in 1 .. line' - 1 : file[k].option = o}
                        IN  IF lines = {} THEN text[o].from = 0
                            ELSE /\ text[o].from \in lines
                                 /\ \A k \in lines : k <= text[o].from
                                 /\ text[o].form = file[text[o].from].form
      BY <2>1
    <3>1. line \in Nat \ {0}
      BY DEF TypeOK
    <3>2. {k \in 1 .. line' - 1 : file[k].option = o}
            = {k \in 1 .. line - 1 : file[k].option = o}
      BY <2>1, <3>1
    <3> QED
      BY <3>2
  <2>2. CASE ReadOption /\ HandleText(file[line])
    <3> DEFINE l == file[line]
    <3> SUFFICES ASSUME NEW o \in TextOption
                 PROVE  LET lines == {k \in 1 .. line' - 1 : file[k].option = o}
                        IN  IF lines = {} THEN text'[o].from = 0
                            ELSE /\ text'[o].from \in lines
                                 /\ \A k \in lines : k <= text'[o].from
                                 /\ text'[o].form = file[text'[o].from].form
      BY <2>2 DEF ReadOption
    <3>1. line \in Nat \ {0} /\ line' = line + 1 /\ l.option \in TextOption
      BY <2>2 DEF TypeOK, ReadOption, HandleText
    <3>2. CASE l.option = o
      <4>1. text'[o] = [from |-> line, form |-> l.form]
        BY <2>2, <3>2 DEF TypeOK, HandleText
      <4>2. line \in {k \in 1 .. line' - 1 : file[k].option = o}
        BY <3>1, <3>2
      <4> QED
        BY <3>1, <4>1, <4>2
    <3>3. CASE l.option # o
      <4>1. text'[o] = text[o]
        BY <2>2, <3>3 DEF TypeOK, HandleText
      <4>2. {k \in 1 .. line' - 1 : file[k].option = o}
              = {k \in 1 .. line - 1 : file[k].option = o}
        BY <3>1, <3>3
      <4> QED
        BY <4>1, <4>2
    <3> QED
      BY <3>2, <3>3
  <2>3. CASE ReadOption /\ ~HandleText(file[line])
    BY <2>1, <2>3 DEF ReadOption, HandleOption, HandleDisableNat, HandleInput,
                      HandleTest, TextOption
  <2>4. CASE SkipComment
    BY <2>1, <2>4 DEF SkipComment, TextOption
  <2>5. CASE GiveUp \/ EndOfFile \/ UNCHANGED vars
    BY <2>5 DEF GiveUp, EndOfFile, vars
  <2> QED
    BY <2>2, <2>3, <2>4, <2>5 DEF Next
<1> QED
  BY <1>1, <1>2, TypeCorrect, PTL DEF Spec

-----------------------------------------------------------------------------
(* ContactList: contacts.txt and the menu. *)

\* The user interface has the book only when it is complete.
Delivered ==
    /\ status = "parsing" => ~gContacts /\ gCurPos = 0
    /\ gContacts => status # "overrun" /\ gContactsCount = maxContact
    /\ ~gContacts => gContactsCount = 0

\* Lines that were given up have left at most a nickname in the entries not used.
UnusedBlank ==
    status # "overrun" =>
        \A k \in 1 .. Slots :
            k > maxContact => /\ contacts[k].sipuri = 0
                              /\ contacts[k].firstname = 0 /\ contacts[k].lastname = 0

BookInv == BookTypeOK /\ Delivered /\ CursorOnContact /\ UnusedBlank /\ BookIsExact

\* What a line adds to the lines that make a contact.
LEMMA CompleteNext ==
    ASSUME NEW n \in Nat, n < Len(bookFile), bookFile \in Seq(0 .. 4)
    PROVE  /\ Cardinality(Complete(n)) \in Nat
           /\ bookFile[n + 1] >= 2 =>
                 Cardinality(Complete(n + 1)) = Cardinality(Complete(n)) + 1
           /\ ~(bookFile[n + 1] >= 2) =>
                 Cardinality(Complete(n + 1)) = Cardinality(Complete(n))
<1>1. IsFiniteSet(Complete(n))
  <2>1. IsFiniteSet(1 .. n)
    BY FS_Interval
  <2> QED
    BY <2>1, FS_Subset DEF Complete
<1>2. Cardinality(Complete(n)) \in Nat
  BY <1>1, FS_CardinalityType
<1>3. CASE bookFile[n + 1] >= 2
  <2>1. Complete(n + 1) = Complete(n) \cup {n + 1} /\ n + 1 \notin Complete(n)
    BY <1>3 DEF Complete
  <2> QED
    BY <1>1, <1>2, <1>3, <2>1, FS_AddElement
<1>4. CASE ~(bookFile[n + 1] >= 2)
  <2>1. Complete(n + 1) = Complete(n)
    BY <1>4 DEF Complete
  <2> QED
    BY <1>2, <1>4, <2>1
<1> QED
  BY <1>2, <1>3, <1>4

\* The cursor starts at the top, before any line is read.
LEMMA BookInitially == BookInit => BookInv
<1> SUFFICES ASSUME BookInit PROVE BookInv
  OBVIOUS
<1>1. PICK n \in Nat : bookFile \in [1 .. n -> 0 .. 4]
  BY ContactConstants DEF BookInit
<1>2. bookFile \in Seq(0 .. 4)
  BY <1>1
<1>3. contacts \in [1 .. Slots -> Contact]
  BY DEF BookInit, Blank, Contact
<1>4. BookTypeOK
  <2>1. bookLine \in 1 .. Len(bookFile) + 1 /\ Slots \in Nat \ {0}
    BY <1>2, ContactConstants DEF BookInit
  <2>2. gContacts \in BOOLEAN /\ bookFound \in BOOLEAN
    BY DEF BookInit
  <2>3. maxContact \in 0 .. Slots /\ gContactsCount \in 0 .. Slots /\ gCurPos \in -1 .. Slots - 1
    BY <2>1 DEF BookInit
  <2> QED
    BY <1>2, <1>3, <2>1, <2>2, <2>3 DEF BookInit, BookTypeOK
<1>5. Delivered /\ CursorOnContact
  BY DEF BookInit, Delivered, CursorOnContact
<1>6. UnusedBlank
  BY DEF BookInit, UnusedBlank, Blank
<1>7. Complete(0) = {}
  BY DEF Complete
<1>8. BookIsExact
  <2>1. Cardinality(Complete(bookLine - 1)) = 0
    <3>1. bookLine - 1 = 0
      BY DEF BookInit
    <3> QED
      BY <1>7, <3>1, FS_EmptySet
  <2>2. 1 .. maxContact = {} /\ maxContact = 0 /\ status = "parsing"
    BY DEF BookInit
  <2> QED
    BY <2>1, <2>2 DEF BookIsExact
<1> QED
  BY <1>4, <1>5, <1>6, <1>8 DEF BookInv

\* A line read into contacts[]: the only step that writes the book.
LEMMA ParseLineKeeps == BookInv /\ ParseLine => BookInv'
<1> SUFFICES ASSUME BookInv, ParseLine PROVE BookInv'
  OBVIOUS
<1> DEFINE n == bookFile[bookLine]
           k == maxContact + 1
<1> USE DEF BookInv
<1>1. /\ bookFile' = bookFile /\ bookFound' = bookFound /\ bookLine' = bookLine + 1
      /\ gContacts' = gContacts /\ gContactsCount' = gContactsCount
      /\ gCurPos' = gCurPos /\ dialled' = dialled
      /\ status = "parsing" /\ bookLine <= Len(bookFile)
  BY DEF ParseLine, guiVars
<1>2. /\ bookFile \in Seq(0 .. 4) /\ bookLine \in Nat \ {0} /\ n \in 0 .. 4
      /\ maxContact \in 0 .. Slots /\ Slots \in Nat /\ bookFound \in BOOLEAN
      /\ contacts \in [1 .. Slots -> Contact] /\ bookLine' \in 1 .. Len(bookFile') + 1
  BY <1>1, ContactConstants DEF BookTypeOK
<1>3. ~gContacts /\ gCurPos = 0 /\ gContactsCount = 0
  BY <1>1 DEF Delivered
<1>4. CursorOnContact'
  BY <1>1, <1>3 DEF CursorOnContact
<1> DEFINE Entry(l) == [nickname  |-> l,
                        sipuri    |-> l,
                        firstname |-> IF bookFile[l] >= 3 THEN l ELSE 0,
                        lastname  |-> IF bookFile[l] >= 4 THEN l ELSE 0]
           ExactAt(c, j) == Makes(c[j].sipuri, j) /\ c[j] = Entry(c[j].sipuri)
<1>5. /\ maxContact = Cardinality(Complete(bookLine - 1))
      /\ \A j \in 1 .. maxContact : ExactAt(contacts, j)
  BY <1>1 DEF BookIsExact
<1>6. /\ n >= 2 => Cardinality(Complete(bookLine)) = maxContact + 1
      /\ ~(n >= 2) => Cardinality(Complete(bookLine)) = maxContact
  <2>1. bookLine - 1 \in Nat /\ bookLine - 1 < Len(bookFile) /\ (bookLine - 1) + 1 = bookLine
    BY <1>1, <1>2
  <2> QED
    BY <1>2, <1>5, <2>1, CompleteNext
<1>7. CASE n = 0 /\ UNCHANGED <<contacts, maxContact, status>>
  <2>1. BookTypeOK' /\ Delivered' /\ UnusedBlank'
    BY <1>1, <1>2, <1>3, <1>7 DEF BookTypeOK, Delivered, UnusedBlank
  <2>2. BookIsExact'
    <3>1. /\ bookLine' - 1 = bookLine /\ status' # "overrun"
          /\ maxContact' = Cardinality(Complete(bookLine))
      BY <1>1, <1>2, <1>6, <1>7
    <3>2. \A j \in 1 .. maxContact' : ExactAt(contacts', j)
      BY <1>5, <1>7
    <3> QED
      BY <1>1, <3>1, <3>2 DEF BookIsExact, Makes, Complete
  <2> QED
    BY <1>4, <2>1, <2>2
<1>8. CASE n >= 1 /\ k > Slots /\ status' = "overrun" /\ UNCHANGED <<contacts, maxContact>>
  <2>1. BookTypeOK' /\ Delivered' /\ UnusedBlank'
    BY <1>1, <1>2, <1>3, <1>8 DEF BookTypeOK, Delivered, UnusedBlank
  <2>2. maxContact = Slots /\ bookLine' - 2 = bookLine - 1
    BY <1>1, <1>2, <1>8
  <2>3. BookIsExact'
    BY <1>1, <1>5, <1>8, <2>2 DEF BookIsExact, Complete
  <2> QED
    BY <1>4, <2>1, <2>3
<1>9. CASE /\ n >= 1 /\ k <= Slots
           /\ contacts' = [contacts EXCEPT ![k] = Written(@, n)]
           /\ maxContact' = IF n >= 2 THEN k ELSE maxContact
           /\ UNCHANGED status
  <2>1. k \in 1 .. Slots /\ contacts[k] \in Contact
    BY <1>2, <1>9
  <2>2. contacts'[k] = Written(contacts[k], n)
    BY <1>2, <1>9, <2>1
  <2>3. \A j \in 1 .. Slots : j # k => contacts'[j] = contacts[j]
    BY <1>2, <1>9, <2>1
  <2>4. Written(contacts[k], n) \in Contact
    BY <1>2, <2>1 DEF Written, Contact
  <2>5. contacts' \in [1 .. Slots -> Contact]
    BY <1>2, <1>9, <2>1, <2>4
  <2>6. maxContact' \in 0 .. Slots
    BY <1>2, <1>9
  <2>7. BookTypeOK' /\ Delivered'
    BY <1>1, <1>2, <1>3, <1>9, <2>5, <2>6 DEF BookTypeOK, Delivered
  <2>8. contacts[k].sipuri = 0 /\ contacts[k].firstname = 0 /\ contacts[k].lastname = 0
    BY <1>1, <1>2, <2>1 DEF UnusedBlank
  <2>9. contacts'[k] = [nickname  |-> bookLine,
                        sipuri    |-> IF n >= 2 THEN bookLine ELSE 0,
                        firstname |-> IF n >= 3 THEN bookLine ELSE 0,
                        lastname  |-> IF n >= 4 THEN bookLine ELSE 0]
    BY <1>9, <2>2, <2>8 DEF Written
  <2>10. UnusedBlank'
    <3> SUFFICES ASSUME NEW j \in 1 .. Slots, j > maxContact'
                 PROVE  /\ contacts'[j].sipuri = 0
                        /\ contacts'[j].firstname = 0 /\ contacts'[j].lastname = 0
      BY DEF UnusedBlank
    <3>1. CASE j = k
      BY <1>2, <1>9, <2>9, <3>1
    <3>2. CASE j # k
      BY <1>1, <1>2, <1>9, <2>3, <3>2 DEF UnusedBlank
    <3> QED
      BY <3>1, <3>2
  <2>11. \A j \in 1 .. maxContact : ExactAt(contacts', j)
    <3> SUFFICES ASSUME NEW j \in 1 .. maxContact PROVE ExactAt(contacts', j)
      OBVIOUS
    <3>1. contacts'[j] = contacts[j]
      BY <1>2, <2>3
    <3> QED
      BY <1>5, <3>1
  <2>12. n >= 2 => ExactAt(contacts', k)
    <3> SUFFICES ASSUME n >= 2 PROVE ExactAt(contacts', k)
      OBVIOUS
    <3>1. contacts'[k] = Entry(bookLine) /\ contacts'[k].sipuri = bookLine
      BY <2>9
    <3>2. Makes(bookLine, k)
      BY <1>1, <1>2, <1>6 DEF Makes, Complete
    <3> QED
      BY <3>1, <3>2
  <2>13. \A j \in 1 .. maxContact' : ExactAt(contacts', j)
    <3> HIDE DEF ExactAt
    <3> SUFFICES ASSUME NEW j \in 1 .. maxContact' PROVE ExactAt(contacts', j)
      OBVIOUS
    <3>1. j \in 1 .. maxContact \/ (n >= 2 /\ j = k)
      BY <1>2, <1>9
    <3> QED
      BY <2>11, <2>12, <3>1
  <2>14. maxContact' = Cardinality(Complete(bookLine))
    BY <1>6, <1>9
  <2>15. BookIsExact'
    <3>1. bookLine' - 1 = bookLine /\ status' # "overrun"
      BY <1>1, <1>2, <1>9
    <3> QED
      BY <1>1, <2>13, <2>14, <3>1 DEF BookIsExact, Makes, Complete
  <2> QED
    BY <1>4, <2>7, <2>10, <2>15
<1> QED
  BY <1>7, <1>8, <1>9 DEF ParseLine

\* parseAddressbook and the keys of the menu keep the invariant.
LEMMA BookStep == BookInv /\ [BookNext]_listVars => BookInv'
<1> SUFFICES ASSUME BookInv, [BookNext]_listVars PROVE BookInv'
  OBVIOUS
<1> USE DEF BookInv
<1>1. CASE ParseLine
  BY <1>1, ParseLineKeeps
\* No other step touches the array or the file.
<1>2. ASSUME UNCHANGED <<bookFile, bookLine, contacts, maxContact>>,
             status = "overrun" <=> status' = "overrun"
      PROVE  UnusedBlank' /\ BookIsExact'
  <2>1. UnusedBlank'
    BY <1>2 DEF UnusedBlank
  <2>2. BookIsExact'
    BY <1>2 DEF BookIsExact, Makes, Complete
  <2> QED
    BY <2>1, <2>2
<1>3. CASE Deliver
  <2>1. UnusedBlank' /\ BookIsExact'
    BY <1>2, <1>3 DEF Deliver
  <2>2. BookTypeOK' /\ Delivered' /\ CursorOnContact'
    BY <1>3 DEF Deliver, BookTypeOK, Delivered, CursorOnContact
  <2> QED
    BY <2>1, <2>2
<1>4. CASE NotFound
  <2>1. UnusedBlank' /\ BookIsExact'
    BY <1>2, <1>4 DEF NotFound
  <2>2. BookTypeOK' /\ Delivered' /\ CursorOnContact'
    BY <1>4 DEF NotFound, guiVars, BookTypeOK, Delivered, CursorOnContact
  <2> QED
    BY <2>1, <2>2
<1>5. CASE Down
  <2>1. UnusedBlank' /\ BookIsExact'
    BY <1>2, <1>5 DEF Down, bookVars
  <2>2. gContactsCount \in 0 .. Slots /\ gCurPos \in Int /\ Slots \in Nat \ {0}
    BY ContactConstants DEF BookTypeOK
  <2>3. CASE gContactsCount = 0
    BY <1>5, <2>1, <2>3 DEF Down, bookVars, BookTypeOK, Delivered, CursorOnContact
  <2>4. CASE gContactsCount # 0
    <3>1. gCurPos + 1 \in Int /\ gContactsCount \in Nat /\ gContactsCount > 0
      BY <2>2, <2>4
    <3>2. (gCurPos + 1) % gContactsCount \in 0 .. gContactsCount - 1
      BY <3>1
    <3>3. gCurPos' \in 0 .. gContactsCount - 1 /\ gCurPos' \in -1 .. Slots - 1
      BY <1>5, <2>2, <2>4, <3>2 DEF Down
    <3>4. BookTypeOK' /\ Delivered' /\ CursorOnContact'
      BY <1>5, <2>4, <3>3 DEF Down, bookVars, BookTypeOK, Delivered, CursorOnContact
    <3> QED
      BY <2>1, <3>4
  <2> QED
    BY <2>3, <2>4
<1>6. CASE Up
  <2>1. UnusedBlank' /\ BookIsExact'
    BY <1>2, <1>6 DEF Up, bookVars
  <2>2. /\ gContactsCount \in 0 .. Slots /\ Slots \in Nat \ {0}
        /\ gCurPos \in -1 .. Slots - 1
        /\ gContactsCount > 0 => gCurPos \in 0 .. gContactsCount - 1
    BY ContactConstants DEF BookTypeOK, CursorOnContact
  <2>3. /\ gCurPos' \in -1 .. Slots - 1
        /\ gContactsCount > 0 => gCurPos' \in 0 .. gContactsCount - 1
    BY <1>6, <2>2 DEF Up
  <2>4. BookTypeOK' /\ Delivered' /\ CursorOnContact'
    BY <1>6, <2>3 DEF Up, bookVars, BookTypeOK, Delivered, CursorOnContact
  <2> QED
    BY <2>1, <2>4
<1>7. CASE Cross
  <2>1. UnusedBlank' /\ BookIsExact'
    BY <1>2, <1>7 DEF Cross, bookVars
  <2>2. dialled' \in Nat
    <3>1. CASE gContacts /\ gCurPos >= 0
      <4>1. gCurPos + 1 \in 1 .. Slots
        BY <3>1, ContactConstants DEF BookTypeOK
      <4>2. contacts[gCurPos + 1] \in Contact
        BY <4>1 DEF BookTypeOK
      <4> QED
        BY <1>7, <3>1, <4>2 DEF Cross, Contact
    <3>2. CASE ~(gContacts /\ gCurPos >= 0)
      BY <1>7, <3>2 DEF Cross, BookTypeOK
    <3> QED
      BY <3>1, <3>2
  <2>3. BookTypeOK' /\ Delivered' /\ CursorOnContact'
    BY <1>7, <2>2 DEF Cross, bookVars, BookTypeOK, Delivered, CursorOnContact
  <2> QED
    BY <2>1, <2>3
<1>8. CASE UNCHANGED listVars
  <2>1. UnusedBlank' /\ BookIsExact'
    BY <1>2, <1>8 DEF listVars
  <2>2. BookTypeOK' /\ Delivered' /\ CursorOnContact'
    BY <1>8 DEF listVars, BookTypeOK, Delivered, CursorOnContact
  <2> QED
    BY <2>1, <2>2
<1> QED
  BY <1>1, <1>3, <1>4, <1>5, <1>6, <1>7, <1>8 DEF BookNext

\* The invariant of the address book.
LEMMA BookInvHolds == BookSpec => []BookInv
BY BookInitially, BookStep, PTL DEF BookSpec

\* The book is exactly the complete lines of contacts.txt, in order, however long
\* the file is and whatever lines parseAddressbook gives up in between.
THEOREM BookFollowsFile == BookSpec => []BookIsExact
<1>1. BookInv => BookIsExact
  BY DEF BookInv
<1> QED
  BY BookInvHolds, <1>1, PTL

\* The keys of the menu keep the cursor on a contact, however many there are and
\* in whatever order they are pressed.
THEOREM CursorStays == BookSpec => []CursorOnContact
<1>1. BookInv => CursorOnContact
  BY DEF BookInv
<1> QED
  BY BookInvHolds, <1>1, PTL

\* X dials the contact under the cursor: the one whose line is as far down among
\* the complete lines of contacts.txt as the cursor is in the menu.
THEOREM DialsRightly == BookSpec => DialsUnderCursor
<1>1. BookInv /\ [BookNext]_listVars =>
        [Cross /\ gContactsCount > 0 =>
            status' = "ready" /\ Makes(dialled', gCurPos + 1)]_listVars
  <2> SUFFICES ASSUME BookInv, Cross, gContactsCount > 0
               PROVE  status' = "ready" /\ Makes(dialled', gCurPos + 1)
    OBVIOUS
  <2> USE DEF BookInv
  <2>1. gCurPos \in 0 .. gContactsCount - 1 /\ gContactsCount \in Nat /\ gCurPos \in Int
    BY ContactConstants DEF CursorOnContact, BookTypeOK
  <2>2. gContacts /\ status = "ready" /\ gContactsCount = maxContact
    BY <2>1 DEF Cross, Delivered, BookTypeOK
  <2>3. dialled' = contacts[gCurPos + 1].sipuri /\ status' = "ready"
    BY <2>1, <2>2 DEF Cross
  <2>4. gCurPos + 1 \in 1 .. maxContact
    BY <2>1, <2>2
  <2>5. Makes(contacts[gCurPos + 1].sipuri, gCurPos + 1)
    BY <2>2, <2>4 DEF BookIsExact
  <2> QED
    BY <2>3, <2>5
<1> QED
  BY BookInvHolds, <1>1, PTL DEF BookSpec, DialsUnderCursor

-----------------------------------------------------------------------------
(* Media: the descriptions of the calls and the sessions opened for them. *)

Description ==
    [call : Call, audioPort : Nat, videoPort : Nat, audio : SUBSET {PCMU, PCMA, 101},
     video : {"open", "rejected", "none"}, answers : BOOLEAN]

Session == [call : Call, port : Nat, payload : Nat]

MediaTypeOK ==
    /\ portCount \in Nat /\ audioPort \in Nat /\ videoPort \in Nat
    /\ local \in [Call -> {None} \cup Description]
    /\ remote \in [Call -> {None} \cup RemoteSdp]
    /\ session \in {None} \cup Session /\ videoSession \in {None} \cup Session
    /\ stopVideo \in BOOLEAN /\ isVidAvailable \in BOOLEAN
    /\ over \subseteq Call

\* Calls are described one after the other, and only a described one hears from the
\* far end or has a session.
DescribedInOrder ==
    /\ \A c, d \in Call : d < c /\ local[c] # None => local[d] # None
    /\ \A c \in Call : remote[c] # None => local[c] # None
    /\ session # None => remote[session.call] # None

\* Each description has four ports of its own, below those still to be given out.
PortsGrow ==
    /\ \A c \in Call :
          local[c] # None => /\ local[c].videoPort = local[c].audioPort + 2
                             /\ local[c].audioPort + 4 <= portCount
    /\ \A c, d \in Call :
          c < d /\ local[c] # None /\ local[d] # None =>
              local[c].audioPort + 4 <= local[d].audioPort

\* audioPort and videoPort are those of the last description made.
LatestPorts ==
    \A c \in Call :
        local[c] # None /\ IsLatest(c) =>
            local[c].audioPort = audioPort /\ local[c].videoPort = videoPort

AnswersKnow == \A c \in Call : Answering(c) => remote[c] # None

MediaInv ==
    /\ MediaTypeOK /\ DescribedInOrder /\ PortsGrow /\ LatestPorts /\ AnswersKnow
    /\ PortsAgree /\ SessionsPaired /\ AudioWithinOffer

\* A description, a remote one and a session are each more than None.
LEMMA NotNone ==
    /\ \A d \in Description : d # None
    /\ \A d \in RemoteSdp : d # None
    /\ \A d \in Session : d # None
<1>1. \A d \in Description : d.call # 0
  BY MediaConstants DEF Description, Call
<1>2. \A d \in RemoteSdp : d.call # 0
  BY DEF RemoteSdp
<1>3. \A d \in Session : d.call # 0
  BY MediaConstants DEF Session, Call
<1>4. None.call = 0
  BY DEF None
<1> QED
  BY <1>1, <1>2, <1>3, <1>4

\* There is no session and no description before the first call.
LEMMA MediaInitially == MediaInit => MediaInv
<1> SUFFICES ASSUME MediaInit PROVE MediaInv
  OBVIOUS
<1> USE DEF MediaInit
<1>1. local \in [Call -> {None} \cup Description] /\ remote \in [Call -> {None} \cup RemoteSdp]
  OBVIOUS
<1>2. MediaTypeOK
  <2>1. stopVideo \in BOOLEAN /\ isVidAvailable \in BOOLEAN
    <3>1. stopVideo = TRUE /\ isVidAvailable = FALSE
      OBVIOUS
    <3> HIDE DEF MediaInit
    <3> QED
      BY <3>1
  <2>2. portCount \in Nat /\ audioPort \in Nat /\ videoPort \in Nat
    BY SMT
  <2> QED
    BY <1>1, <2>1, <2>2 DEF MediaTypeOK
<1>3. DescribedInOrder /\ PortsGrow /\ LatestPorts
  BY DEF DescribedInOrder, PortsGrow, LatestPorts
<1>4. \A c \in Call : ~Answering(c)
  BY DEF Answering
<1>5. AnswersKnow /\ AudioWithinOffer
  BY <1>4 DEF AnswersKnow, AudioWithinOffer
<1>6. PortsAgree /\ SessionsPaired
  BY DEF PortsAgree, SessionsPaired
<1> QED
  BY <1>2, <1>3, <1>5, <1>6 DEF MediaInv

\* createLocalSdp, whether it offers or answers: the one step that takes ports.
LEMMA DescribesKeeps ==
    ASSUME MediaInv, NEW c \in Call, NEW rem \in {None} \cup RemoteSdp,
           IsNew(c), CreateLocalSdp(c, rem),
           remote' = IF rem = None THEN remote ELSE [remote EXCEPT ![c] = rem],
           UNCHANGED <<session, videoSession, stopVideo, isVidAvailable, over>>
    PROVE  MediaInv'
<1> USE DEF MediaInv
<1>1. PICK garbage \in BOOLEAN :
        local' = [local EXCEPT ![c] =
                    [call |-> c, audioPort |-> audioPort', videoPort |-> videoPort',
                     audio |-> AudioLine(rem), video |-> VideoLine(rem, garbage),
                     answers |-> rem # None]]
  BY DEF CreateLocalSdp
<1> DEFINE desc == [call |-> c, audioPort |-> audioPort', videoPort |-> videoPort',
                    audio |-> AudioLine(rem), video |-> VideoLine(rem, garbage),
                    answers |-> rem # None]
<1>2. audioPort' = portCount /\ videoPort' = portCount + 2 /\ portCount' = portCount + 4
  BY DEF CreateLocalSdp, TakePorts
<1>3. /\ portCount \in Nat /\ local \in [Call -> {None} \cup Description]
      /\ remote \in [Call -> {None} \cup RemoteSdp]
  BY DEF MediaTypeOK
<1>4. audioPort' \in Nat /\ videoPort' \in Nat /\ portCount' \in Nat
  BY <1>2, <1>3
<1>5. AudioLine(rem) \subseteq {PCMU, PCMA, 101}
  BY DEF AudioLine, IsLaw
<1>6. VideoLine(rem, garbage) \in {"open", "rejected", "none"}
  BY DEF VideoLine
<1>7. desc \in Description
  BY <1>4, <1>5, <1>6 DEF Description
<1>8. /\ desc.call = c /\ desc.audioPort = portCount /\ desc.videoPort = portCount + 2
      /\ desc.audio = AudioLine(rem) /\ desc.answers = (rem # None) /\ desc # None
  BY <1>2, <1>7, NotNone
<1> HIDE DEF desc
<1>9. local' \in [Call -> {None} \cup Description] /\ local'[c] = desc
      /\ \A d \in Call : d # c => local'[d] = local[d]
  BY <1>1, <1>3, <1>7 DEF desc
<1>10. /\ remote' \in [Call -> {None} \cup RemoteSdp] /\ remote'[c] = IF rem = None THEN remote[c] ELSE rem
       /\ \A d \in Call : d # c => remote'[d] = remote[d]
  BY <1>3
<1>11. MediaTypeOK'
  BY <1>4, <1>9, <1>10 DEF MediaTypeOK
<1>12. Call \subseteq Int /\ local[c] = None /\ \A d \in Call : d < c => local[d] # None
  BY DEF IsNew, Call
<1>13. DescribedInOrder'
  <2>1. \A b, d \in Call : d < b /\ local'[b] # None => local'[d] # None
    BY <1>8, <1>9, <1>12 DEF DescribedInOrder
  <2>2. \A d \in Call : remote'[d] # None => local'[d] # None
    BY <1>8, <1>9, <1>10 DEF DescribedInOrder
  <2>3. session' # None => remote'[session'.call] # None
    <3> SUFFICES ASSUME session # None PROVE remote'[session.call] # None
      OBVIOUS
    <3>1. session.call \in Call /\ remote[session.call] # None /\ local[session.call] # None
      BY DEF DescribedInOrder, MediaTypeOK, Session
    <3>2. session.call # c
      BY <1>12, <3>1
    <3> QED
      BY <1>10, <3>1, <3>2
  <2> QED
    BY <2>1, <2>2, <2>3 DEF DescribedInOrder
\* Every call described before is an earlier one.
<1>14. \A d \in Call : local[d] # None => d < c
  BY <1>12 DEF DescribedInOrder
<1>15. PortsGrow'
  <2>1. \A d \in Call : local[d] # None =>
            local[d] \in Description /\ local[d].audioPort \in Nat
    BY <1>3 DEF Description
  <2>2. ASSUME NEW d \in Call, local'[d] # None
        PROVE  /\ local'[d].videoPort = local'[d].audioPort + 2
               /\ local'[d].audioPort + 4 <= portCount'
    <3>1. CASE d = c
      BY <1>2, <1>3, <1>8, <1>9, <3>1
    <3>2. CASE d # c
      BY <1>2, <1>3, <1>9, <2>1, <2>2, <3>2 DEF PortsGrow
    <3> QED
      BY <3>1, <3>2
  <2>3. ASSUME NEW b \in Call, NEW d \in Call, b < d, local'[b] # None, local'[d] # None
        PROVE  local'[b].audioPort + 4 <= local'[d].audioPort
    <3>1. b # c
      <4> SUFFICES ASSUME b = c PROVE FALSE
        OBVIOUS
      <4>1. d # c /\ local[d] # None
        BY <1>9, <1>12, <2>3
      <4> QED
        BY <1>12, <1>14, <2>3, <4>1
    <3>2. local'[b] = local[b]
      BY <1>9, <3>1
    <3>3. CASE d = c
      BY <1>8, <1>9, <2>3, <3>2, <3>3 DEF PortsGrow
    <3>4. CASE d # c
      BY <1>9, <2>3, <3>2, <3>4 DEF PortsGrow
    <3> QED
      BY <3>3, <3>4
  <2> QED
    BY <2>2, <2>3 DEF PortsGrow
\* Now c is the latest call, and only c.
<1>16. \A d \in Call : local'[d] # None /\ IsLatest(d)' => d = c
  <2> SUFFICES ASSUME NEW d \in Call, local'[d] # None, IsLatest(d)', d # c PROVE FALSE
    OBVIOUS
  <2>1. d < c
    BY <1>9, <1>14
  <2> QED
    BY <1>8, <1>9, <1>12, <2>1 DEF IsLatest
<1>17. LatestPorts'
  BY <1>2, <1>8, <1>9, <1>16 DEF LatestPorts
<1>18. PortsAgree'
  <2>1. ASSUME session # None PROVE ~IsLatest(session.call)'
    <3>1. session.call \in Call /\ local[session.call] # None
      BY <2>1 DEF DescribedInOrder, MediaTypeOK, Session
    <3>2. PICK s \in Call : s = session.call
      BY <3>1
    <3>3. s < c
      BY <1>14, <3>1, <3>2
    <3> QED
      BY <1>8, <1>9, <3>2, <3>3 DEF IsLatest
  <2>2. ASSUME videoSession # None PROVE ~IsLatest(videoSession.call)'
    <3>1. session # None /\ videoSession.call = session.call
      BY <2>2 DEF SessionsPaired
    <3> QED
      BY <2>1, <3>1 DEF IsLatest
  <2> QED
    BY <2>1, <2>2 DEF PortsAgree
<1>19. SessionsPaired'
  BY DEF SessionsPaired
<1>20. AnswersKnow'
  BY <1>8, <1>9, <1>10 DEF AnswersKnow, Answering
<1>21. AudioWithinOffer'
  <2> SUFFICES ASSUME NEW d \in Call, local'[d] # None, local'[d].answers
               PROVE  local'[d].audio \subseteq Elements(remote'[d].audio) \cap {PCMU, PCMA}
    BY DEF AudioWithinOffer, Answering, Elements
  <2>1. CASE d = c
    <3>1. rem # None /\ remote'[d] = rem /\ local'[d].audio = AudioLine(rem)
      BY <1>8, <1>9, <1>10, <2>1
    <3>2. AudioLine(rem) \subseteq Elements(rem.audio) \cap {PCMU, PCMA}
      BY <3>1 DEF AudioLine, IsLaw
    <3> QED
      BY <3>1, <3>2
  <2>2. CASE d # c
    BY <1>9, <1>10, <2>2 DEF AudioWithinOffer, Answering
  <2> QED
    BY <2>1, <2>2
<1> QED
  BY <1>11, <1>13, <1>15, <1>17, <1>18, <1>19, <1>20, <1>21

\* createLocalSdp, setup and stop keep the invariant, failures included.
LEMMA MediaStep == MediaInv /\ MediaNext => MediaInv'
<1> SUFFICES ASSUME MediaInv, MediaNext PROVE MediaInv'
  OBVIOUS
<1> USE DEF MediaInv
<1>1. ASSUME NEW c \in Call, Offer(c) PROVE MediaInv'
  <2>1. remote' = remote
    BY <1>1 DEF Offer
  <2> QED
    BY <1>1, <2>1, DescribesKeeps DEF Offer
<1>2. ASSUME NEW c \in Call, NEW rem \in RemoteSdp, Answer(c, rem) PROVE MediaInv'
  <2>1. rem # None
    BY NotNone
  <2> QED
    BY <1>2, <2>1, DescribesKeeps DEF Answer
<1>3. ASSUME NEW c \in Call, NEW rem \in RemoteSdp, RcvAnswer(c, rem) PROVE MediaInv'
  <2>1. /\ remote' = [remote EXCEPT ![c] = rem] /\ remote \in [Call -> {None} \cup RemoteSdp]
        /\ UNCHANGED <<portCount, audioPort, videoPort, local, session, videoSession,
                       stopVideo, isVidAvailable, over>>
        /\ local[c] # None /\ remote[c] = None
    BY <1>3 DEF RcvAnswer, MediaTypeOK
  <2>2. /\ remote' \in [Call -> {None} \cup RemoteSdp] /\ remote'[c] # None
        /\ \A d \in Call : d # c => remote'[d] = remote[d]
    BY <2>1, NotNone
  <2>3. MediaTypeOK' /\ PortsGrow' /\ LatestPorts' /\ PortsAgree' /\ SessionsPaired'
    BY <2>1, <2>2 DEF MediaTypeOK, PortsGrow, LatestPorts, PortsAgree, SessionsPaired, IsLatest
  <2>4. DescribedInOrder'
    <3>1. session # None => session.call \in Call
      BY DEF MediaTypeOK, Session
    <3> QED
      BY <2>1, <2>2, <3>1 DEF DescribedInOrder
  <2>5. \A d \in Call : Answering(d)' => d # c /\ Answering(d)
    BY <2>1 DEF AnswersKnow, Answering
  <2>6. AnswersKnow'
    BY <2>2, <2>5 DEF AnswersKnow
  <2>7. AudioWithinOffer'
    BY <2>1, <2>2, <2>5 DEF AudioWithinOffer, Elements
  <2> QED
    BY <2>3, <2>4, <2>6, <2>7
\* Whatever leaves the descriptions alone.
<1>4. ASSUME UNCHANGED <<portCount, audioPort, videoPort, local, remote>>
      PROVE  PortsGrow' /\ LatestPorts' /\ AnswersKnow' /\ AudioWithinOffer'
  <2>1. PortsGrow' /\ LatestPorts'
    BY <1>4 DEF PortsGrow, LatestPorts, IsLatest
  <2>2. AnswersKnow' /\ AudioWithinOffer'
    BY <1>4 DEF AnswersKnow, AudioWithinOffer, Answering, Elements
  <2> QED
    BY <2>1, <2>2
<1>5. ASSUME NEW c \in Call, Setup(c) PROVE MediaInv'
  <2>1. /\ UNCHANGED <<portCount, audioPort, videoPort, local, remote, isVidAvailable, over>>
        /\ remote[c] # None /\ session = None
        /\ session' = [call |-> c, port |-> audioPort, payload |-> Head(remote[c].audio)]
    BY <1>5 DEF Setup, RtpAudioSetup
  <2>2. remote[c] \in RemoteSdp /\ audioPort \in Nat /\ videoPort \in Nat /\ local[c] # None
    BY <2>1 DEF MediaTypeOK, DescribedInOrder
  <2>3. Head(remote[c].audio) \in Nat
    <3>1. PICK a \in AudioLines : a = remote[c].audio
      BY <2>2 DEF RemoteSdp
    <3>2. a \in Seq(Nat) /\ a # << >>
      BY MediaConstants
    <3> QED
      BY <3>1, <3>2
  <2>4. /\ session' \in Session /\ session' # None
        /\ session'.call = c /\ session'.port = audioPort
    BY <2>1, <2>2, <2>3, NotNone DEF Session
  <2>5. videoSession = None /\ stopVideo
    BY <2>1 DEF SessionsPaired
  <2>6. \/ UNCHANGED <<videoSession, stopVideo>>
        \/ /\ videoSession' = [call |-> c, port |-> videoPort, payload |-> JPEG]
           /\ stopVideo' = FALSE
    BY <1>5 DEF Setup, RtpVideoSetup
  <2>7. /\ videoSession' \in {None} \cup Session
        /\ videoSession' # None => videoSession'.call = c /\ videoSession'.port = videoPort
        /\ stopVideo' \in BOOLEAN /\ (stopVideo' <=> videoSession' = None)
    <3>1. CASE UNCHANGED <<videoSession, stopVideo>>
      BY <2>5, <3>1
    <3>2. CASE /\ videoSession' = [call |-> c, port |-> videoPort, payload |-> JPEG]
               /\ stopVideo' = FALSE
      <4>1. videoSession' \in Session
        BY <2>2, <3>2 DEF Session, JPEG
      <4>2. videoSession' # None
        BY <4>1, NotNone
      <4> QED
        BY <3>2, <4>1, <4>2
    <3> QED
      BY <2>6, <3>1, <3>2
  <2>8. MediaTypeOK'
    BY <2>1, <2>4, <2>7 DEF MediaTypeOK
  <2>9. DescribedInOrder'
    BY <2>1, <2>4 DEF DescribedInOrder
  <2>10. SessionsPaired'
    BY <2>4, <2>7 DEF SessionsPaired
  <2>11. PortsAgree'
    <3>1. IsLatest(c)' => IsLatest(c)
      BY <2>1 DEF IsLatest
    <3>2. IsLatest(c) => local[c].audioPort = audioPort /\ local[c].videoPort = videoPort
      BY <2>2 DEF LatestPorts
    <3> QED
      BY <2>1, <2>4, <2>7, <3>1, <3>2 DEF PortsAgree, IsLatest
  <2> QED
    BY <1>4, <2>1, <2>8, <2>9, <2>10, <2>11
<1>6. CASE Stop
  <2>1. /\ UNCHANGED <<portCount, audioPort, videoPort, local, remote, isVidAvailable>>
        /\ session # None /\ session' = None /\ over' = over \cup {session.call}
    BY <1>6 DEF Stop
  <2>2. session.call \in Call
    BY <2>1 DEF MediaTypeOK, Session
  <2>3. videoSession' = None /\ stopVideo' = TRUE
    BY <1>6 DEF Stop, RtpVideoStop, SessionsPaired, MediaTypeOK
  <2>4. MediaTypeOK'
    <3>1. over' \subseteq Call /\ stopVideo' \in BOOLEAN
      BY <2>1, <2>2, <2>3 DEF MediaTypeOK
    <3> QED
      BY <2>1, <2>3, <3>1 DEF MediaTypeOK
  <2>5. DescribedInOrder' /\ PortsAgree' /\ SessionsPaired'
    BY <2>1, <2>3 DEF DescribedInOrder, PortsAgree, SessionsPaired
  <2> QED
    BY <1>4, <2>1, <2>4, <2>5
<1>7. ASSUME NEW c \in Call, Abandon(c) PROVE MediaInv'
  <2>1. /\ UNCHANGED <<portCount, audioPort, videoPort, local, remote, session,
                       videoSession, stopVideo, isVidAvailable>>
        /\ over' = over \cup {c}
    BY <1>7 DEF Abandon
  <2>2. MediaTypeOK'
    BY <2>1 DEF MediaTypeOK
  <2>3. DescribedInOrder' /\ PortsAgree' /\ SessionsPaired'
    BY <2>1 DEF DescribedInOrder, PortsAgree, SessionsPaired, IsLatest
  <2> QED
    BY <1>4, <2>1, <2>2, <2>3
<1> QED
  BY <1>1, <1>2, <1>3, <1>5, <1>6, <1>7 DEF MediaNext

\* MediaAgreed is part of it: four ports apart, no two streams meet.
LEMMA MediaInvAgrees == MediaInv => MediaAgreed
<1> SUFFICES ASSUME MediaInv PROVE PortsDistinct
  BY DEF MediaInv, MediaAgreed
<1>1. \A c \in Call : local[c] # None => local[c].audioPort \in Nat
  BY DEF MediaInv, MediaTypeOK, Description
<1>2. Call \subseteq Int
  BY DEF Call
<1> SUFFICES ASSUME NEW c \in Call, NEW d \in Call, local[c] # None, local[d] # None
             PROVE  /\ local[c].audioPort # local[d].videoPort
                    /\ c # d => /\ local[c].audioPort # local[d].audioPort
                                /\ local[c].videoPort # local[d].videoPort
  BY DEF PortsDistinct
<1>3. /\ local[c].videoPort = local[c].audioPort + 2
      /\ local[d].videoPort = local[d].audioPort + 2
  BY DEF MediaInv, PortsGrow
<1>4. CASE c = d
  BY <1>1, <1>3, <1>4
<1>5. CASE c < d
  <2>1. local[c].audioPort + 4 <= local[d].audioPort
    BY <1>5 DEF MediaInv, PortsGrow
  <2> QED
    BY <1>1, <1>3, <2>1
<1>6. CASE d < c
  <2>1. local[d].audioPort + 4 <= local[c].audioPort
    BY <1>6 DEF MediaInv, PortsGrow
  <2> QED
    BY <1>1, <1>3, <2>1
<1> QED
  BY <1>2, <1>4, <1>5, <1>6

-----------------------------------------------------------------------------
(* Engine: the startup and what runs after it. *)

\* The engine reads its two files and walks its menu as ConfigFile and ContactList
\* say, whatever the devices and the calls do meanwhile: parseConfigFile,
\* parseAddressbook and the keys are the only code that touches their state.
THEOREM EngineHasParts == EngineSpec => Spec /\ BookSpec
<1>1. EngineInit => Init /\ BookInit
  BY DEF EngineInit
<1>2. [EngineNext]_allVars => [Next]_vars /\ [BookNext]_listVars
  <2> SUFFICES ASSUME [EngineNext]_allVars PROVE [Next]_vars /\ [BookNext]_listVars
    OBVIOUS
  <2>1. CASE Parsing
    BY <2>1 DEF Parsing, BookNext
  <2>2. CASE LoadModules
    BY <2>2 DEF LoadModules
  <2>3. CASE StartUsb
    BY <2>3 DEF StartUsb
  <2>4. CASE sceUsbActivate
    BY <2>4 DEF sceUsbActivate
  <2>5. CASE initVideo
    BY <2>5 DEF initVideo
  <2>6. CASE initAudio
    BY <2>6 DEF initAudio
  <2>7. CASE Listen
    BY <2>7 DEF Listen
  <2>8. CASE Running
    BY <2>8 DEF Running, BookNext
  <2>9. CASE UNCHANGED allVars
    BY <2>9 DEF allVars
  <2> QED
    BY <2>1, <2>2, <2>3, <2>4, <2>5, <2>6, <2>7, <2>8, <2>9 DEF EngineNext
<1> QED
  BY <1>1, <1>2, PTL DEF EngineSpec, Spec, BookSpec

\* So the settings, the book and what X dials are right in the running engine too.
THEOREM EngineReadsFiles ==
    EngineSpec => [](LastLineWins /\ NatIsLastLine /\ BookIsExact) /\ DialsUnderCursor
BY EngineHasParts, TextIsLastLine, NatFollowsFile, BookFollowsFile, DialsRightly, PTL

\* The camera is available only when all its drivers run, and those are not even
\* tried before the settings are read for good.
CameraInv ==
    /\ VideoHasUsb
    /\ phase \in {"StartUsb", "sceUsbActivate", "sceUsbGetState"} => config_use_usb
    /\ phase \in {"sceUsbActivate", "sceUsbGetState"} => usb = Drivers
    /\ isVidAvailable =>
          /\ phase \notin {"parseConfigFile", "parseAddressbook", "LoadModules", "StartUsb",
                            "sceUsbActivate", "sceUsbGetState"}
          /\ config_use_usb /\ config_get_use_video /\ usb = Drivers
    /\ videoSession # None => isVidAvailable

EngineInv == MediaInv /\ CameraInv

\* A start of all the drivers leaves exactly them running.
LEMMA AllDrivers ==
    /\ SubSeq(Drivers, 1, Len(Drivers)) = Drivers
    /\ config_get_use_video => Len(Drivers) = 4 /\ Drivers[3] = "usbcam"
<1> DEFINE names == {"usbbus", "usbacc", "usbcam", "usbcammic", "usbmic"}
           bus == <<"usbbus", "usbacc">>
           device == IF config_get_use_video THEN <<"usbcam", "usbcammic">> ELSE <<"usbmic">>
<1>1. bus \in Seq(names) /\ Len(bus) = 2
  OBVIOUS
<1>2. device \in Seq(names)
  <2>1. <<"usbcam", "usbcammic">> \in Seq(names) /\ <<"usbmic">> \in Seq(names)
    OBVIOUS
  <2> QED
    BY <2>1
<1>3. config_get_use_video => Len(device) = 2 /\ device[1] = "usbcam"
  OBVIOUS
<1>4. Drivers = bus \o device
  BY DEF Drivers
<1> HIDE DEF bus, device, names
<1>5. /\ Drivers \in Seq(names) /\ Len(Drivers) = Len(bus) + Len(device)
      /\ \A i \in 1 .. Len(bus) + Len(device) :
            Drivers[i] = IF i <= Len(bus) THEN bus[i] ELSE device[i - Len(bus)]
  BY <1>1, <1>2, <1>4, ConcatProperties
<1>6. SubSeq(Drivers, 1, Len(Drivers)) = Drivers
  BY <1>5, SubSeqFull
<1>7. config_get_use_video => Len(Drivers) = 4 /\ Drivers[3] = "usbcam"
  <2> SUFFICES ASSUME config_get_use_video
               PROVE  Len(Drivers) = 4 /\ Drivers[3] = "usbcam"
    OBVIOUS
  <2>1. Len(bus) = 2 /\ Len(device) = 2 /\ device[1] = "usbcam"
    BY <1>1, <1>3
  <2>2. Drivers[3] = device[3 - 2]
    BY <1>5, <2>1
  <2> QED
    BY <1>5, <2>1, <2>2
<1> QED
  BY <1>6, <1>7

\* Starting the drivers changes neither the settings nor the media.
LEMMA StartUsbLeaves ==
    ASSUME StartUsb
    PROVE  phase = "StartUsb" /\ UNCHANGED <<mediaVars, switches>>
<1>1. phase = "StartUsb" /\ vars' = vars /\ mediaVars' = mediaVars
  BY Zenon DEF StartUsb
<1>2. switches' = switches
  BY <1>1 DEF vars
<1> QED BY <1>1, <1>2

\* Whichever part moves, the invariant of the engine stays.
LEMMA EngineStep == EngineInv /\ VideoHasUsb' /\ [EngineNext]_allVars => EngineInv'
<1> SUFFICES ASSUME MediaInv, CameraInv, VideoHasUsb', [EngineNext]_allVars
             PROVE  MediaInv' /\ CameraInv'
  BY DEF EngineInv
<1>1. ASSUME UNCHANGED mediaVars PROVE MediaInv'
  <2> USE <1>1 DEF mediaVars, MediaInv
  <2>1. MediaTypeOK' /\ DescribedInOrder' /\ PortsGrow' /\ SessionsPaired'
    BY DEF MediaTypeOK, DescribedInOrder, PortsGrow, SessionsPaired
  <2>2. LatestPorts' /\ PortsAgree'
    BY DEF LatestPorts, PortsAgree, IsLatest
  <2>3. AnswersKnow' /\ AudioWithinOffer'
    BY DEF AnswersKnow, AudioWithinOffer, Answering, Elements
  <2> QED
    BY <2>1, <2>2, <2>3
<1> USE DEF CameraInv, config_use_usb, config_get_use_video
<1>2. ASSUME switches' = switches PROVE Drivers' = Drivers
  BY <1>2 DEF Drivers
<1>3. CASE Parsing
  <2>1. /\ UNCHANGED <<mediaVars, usb>> /\ phase \in {"parseConfigFile", "parseAddressbook"}
        /\ phase' \in {"parseConfigFile", "parseAddressbook", "LoadModules"}
    BY <1>3 DEF Parsing, restVars
  <2>2. CameraInv'
    BY <2>1 DEF mediaVars
  <2> QED
    BY <1>1, <2>1, <2>2
<1>4. CASE LoadModules
  <2>1. UNCHANGED <<mediaVars, usb, switches>>
    BY <1>4 DEF LoadModules, restVars, vars
  <2>2. CameraInv'
    BY <1>2, <1>4, <2>1 DEF LoadModules, mediaVars
  <2> QED
    BY <1>1, <2>1, <2>2
<1>5. CASE StartUsb
  <2>1. UNCHANGED <<mediaVars, switches>> /\ phase = "StartUsb"
    <3> HIDE DEF CameraInv, config_use_usb, config_get_use_video
    <3> QED BY <1>5, StartUsbLeaves
  <2>2. phase' = "sceUsbActivate" => usb' = Drivers
    BY <1>5, AllDrivers, Zenon DEF StartUsb
  <2>3. phase' \in {"failed", "sceUsbActivate"}
    BY <1>5 DEF StartUsb
  <2>4. CameraInv'
    BY <1>2, <2>1, <2>2, <2>3 DEF mediaVars
  <2> QED
    BY <1>1, <2>1, <2>4
<1>6. CASE sceUsbActivate
  <2>1. UNCHANGED <<mediaVars, usb, switches>>
    BY <1>6 DEF sceUsbActivate, restVars, vars
  <2>2. CameraInv'
    BY <1>2, <1>6, <2>1 DEF sceUsbActivate, mediaVars
  <2> QED
    BY <1>1, <2>1, <2>2
<1>7. CASE initVideo
  <2>1. /\ UNCHANGED <<usb, switches, portCount, audioPort, videoPort, local, remote,
                       session, videoSession, stopVideo, over>>
        /\ phase = "sceUsbGetState" /\ phase' = "initAudio"
        /\ isVidAvailable' \in {FALSE, config_get_use_video}
    BY <1>7 DEF initVideo, vars
  <2>2. videoSession = None /\ videoSession' = None
    BY <2>1
  <2>3. CameraInv'
    BY <1>2, <2>1, <2>2
  <2>4. isVidAvailable' \in BOOLEAN
    <3> HIDE DEF CameraInv, config_use_usb
    <3>1. CASE "video" \in switches
      <4>1. config_get_use_video = TRUE
        BY <3>1
      <4> QED
        BY <2>1, <4>1
    <3>2. CASE "video" \notin switches
      <4>1. config_get_use_video = FALSE
        BY <3>2
      <4> QED
        BY <2>1, <4>1
    <3> QED
      BY <3>1, <3>2
  <2>5. MediaInv'
    <3> USE DEF MediaInv
    <3>1. MediaTypeOK'
      BY <2>1, <2>4 DEF MediaTypeOK
    <3>2. DescribedInOrder' /\ PortsGrow' /\ SessionsPaired'
      BY <2>1 DEF DescribedInOrder, PortsGrow, SessionsPaired
    <3>3. LatestPorts' /\ PortsAgree'
      BY <2>1 DEF LatestPorts, PortsAgree, IsLatest
    <3>4. AnswersKnow' /\ AudioWithinOffer'
      BY <2>1 DEF AnswersKnow, AudioWithinOffer, Answering, Elements
    <3> QED
      BY <3>1, <3>2, <3>3, <3>4
  <2> QED
    BY <2>3, <2>5
<1>8. CASE initAudio \/ Listen
  <2>1. UNCHANGED <<mediaVars, usb, switches>> /\ phase' \in {"eXosip_init", "failed", "running"}
    BY <1>8 DEF initAudio, Listen, restVars, vars
  <2>2. CameraInv'
    BY <1>2, <2>1 DEF mediaVars
  <2> QED
    BY <1>1, <2>1, <2>2
<1>9. CASE Running
  <2>1. UNCHANGED <<usb, switches, phase>> /\ phase = "running"
    BY <1>9 DEF Running, vars, engineVars
  <2>2. CASE UNCHANGED mediaVars
    <3>1. CameraInv'
      BY <1>2, <2>1, <2>2 DEF mediaVars
    <3> QED
      BY <1>1, <2>2, <3>1
  <2>3. CASE MediaNext
    <3>1. MediaInv'
      BY <2>3, MediaStep
    <3>2. isVidAvailable' = isVidAvailable
      BY <2>3 DEF MediaNext, Offer, Answer, RcvAnswer, Setup, Stop, Abandon
    <3>3. videoSession' # None => isVidAvailable
      <4>1. ASSUME NEW c \in Call, Setup(c) PROVE videoSession' # None => isVidAvailable
        BY <4>1 DEF Setup, RtpVideoSetup, VideoAgreed
      <4>2. CASE Stop
        BY <4>2 DEF Stop, RtpVideoStop
      <4> QED
        BY <2>3, <4>1, <4>2 DEF MediaNext, Offer, Answer, RcvAnswer, Abandon
    <3>4. CameraInv'
      BY <1>2, <2>1, <3>2, <3>3
    <3> QED
      BY <3>1, <3>4
  <2> QED
    BY <1>9, <2>2, <2>3 DEF Running
<1>10. CASE UNCHANGED allVars
  <2>1. UNCHANGED <<mediaVars, usb, phase, switches>>
    BY <1>10 DEF allVars, engineVars, vars
  <2>2. CameraInv'
    BY <1>2, <2>1 DEF mediaVars
  <2> QED
    BY <1>1, <2>1, <2>2
<1> QED
  BY <1>3, <1>4, <1>5, <1>6, <1>7, <1>8, <1>9, <1>10 DEF EngineNext

\* The engine's invariant, from the first line of sipcfg.ini to the last call.
THEOREM EngineInvHolds == EngineSpec => []EngineInv
<1>1. EngineInit => EngineInv
  <2> SUFFICES ASSUME EngineInit PROVE EngineInv
    OBVIOUS
  <2>1. MediaInv
    BY MediaInitially DEF EngineInit
  <2>2. CameraInv
    BY DEF EngineInit, Init, MediaInit, CameraInv, VideoHasUsb
  <2> QED
    BY <2>1, <2>2 DEF EngineInv
<1> QED
  BY <1>1, EngineStep, EngineHasParts, VideoNeedsUsb, PTL DEF EngineSpec

\* In every call, however many there were before: no two streams have a port in
\* common, the sessions of the latest call listen where its description says, and
\* an answer accepts only what was offered (createLocalSdp, rtpAudioSetup).
THEOREM MediaAgrees == EngineSpec => []MediaAgreed
<1>1. EngineInv => MediaAgreed
  BY MediaInvAgrees DEF EngineInv
<1> QED
  BY EngineInvHolds, <1>1, PTL

\* rtpVideoSetup and rtpVideoStop stay in step with the audio session.
THEOREM SessionsStayPaired == EngineSpec => []SessionsPaired
<1>1. EngineInv => SessionsPaired
  BY DEF EngineInv, MediaInv
<1> QED
  BY EngineInvHolds, <1>1, PTL

\* No video stream is opened without a camera whose drivers run, whatever the
\* settings say and whichever step of SIPEngineInitialize fails.
THEOREM CameraBehindVideo == EngineSpec => []VideoOverCamera
<1>1. EngineInv => VideoOverCamera
  <2> SUFFICES ASSUME EngineInv, videoSession # None
               PROVE  config_use_usb /\ \E k \in 1 .. Len(usb) : usb[k] = "usbcam"
    BY DEF VideoOverCamera
  <2>1. config_use_usb /\ config_get_use_video /\ usb = Drivers
    BY DEF EngineInv, CameraInv
  <2>2. Len(usb) = 4 /\ usb[3] = "usbcam"
    BY <2>1, AllDrivers
  <2> QED
    BY <2>1, <2>2
<1> QED
  BY EngineInvHolds, <1>1, PTL
=============================================================================
