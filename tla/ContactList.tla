---------------------------- MODULE ContactList ----------------------------
(***************************************************************************)
(* SIPEngine/addressbook.c and the contact menu of SIPTextGUI/text_gui.c:  *)
(* contacts.txt is read line by line into the array contacts[20], handed   *)
(* to the user interface, and walked with the D-pad.                       *)
(*                                                                         *)
(* A line is the number of its comma-separated fields that strtok finds    *)
(* (nickname, SIP URI, first name, last name); what a field says is the    *)
(* number of the line it was copied from, 0 for a field never written.     *)
(***************************************************************************)
EXTENDS Integers, Sequences, FiniteSets

CONSTANTS
    Slots,       \* entries of contacts[] (20 in the code)
    MaxContacts  \* bound: lines of contacts.txt

ASSUME ContactConstants == Slots \in Nat \ {0} /\ MaxContacts \in Nat

VARIABLES
    bookFile,     \* contacts.txt: the fields of each line
    bookFound,    \* whether it could be opened
    bookLine,     \* the next line to read
    contacts,     \* contacts[]
    maxContact,
    gContacts,    \* whether the user interface has been given the array
    gContactsCount,
    gCurPos,
    dialled,      \* the line whose URI was dialled last, or 0
    status        \* "parsing", "ready", "overrun" (a write past contacts[]) or
                  \* "trapped" (a division by zero or a wild read)

listVars == <<bookFile, bookFound, bookLine, contacts, maxContact, gContacts, gContactsCount,
          gCurPos, dialled, status>>

Contact ==
    [nickname : Nat, sipuri : Nat, firstname : Nat, lastname : Nat]

Blank == [nickname |-> 0, sipuri |-> 0, firstname |-> 0, lastname |-> 0]

BookTypeOK ==
    /\ bookFile \in Seq(0 .. 4) /\ bookFound \in BOOLEAN
    /\ bookLine \in 1 .. Len(bookFile) + 1
    /\ contacts \in [1 .. Slots -> Contact]
    /\ maxContact \in 0 .. Slots
    /\ gContacts \in BOOLEAN
    /\ gContactsCount \in 0 .. Slots
    /\ gCurPos \in -1 .. Slots - 1
    /\ dialled \in Nat
    /\ status \in {"parsing", "ready", "overrun", "trapped"}

\* memset(contacts, 0, ...).
BookInit ==
    /\ \E n \in 0 .. MaxContacts : bookFile \in [1 .. n -> 0 .. 4]
    /\ bookFound \in BOOLEAN
    /\ bookLine = 1
    /\ contacts = [k \in 1 .. Slots |-> Blank]
    /\ maxContact = 0
    /\ gContacts = FALSE /\ gContactsCount = 0
    /\ gCurPos = 0 /\ dialled = 0
    /\ status = "parsing"

guiVars == <<gContacts, gContactsCount, gCurPos, dialled>>

-----------------------------------------------------------------------------
(* parseAddressbook. *)

\* What a line of n fields writes into its entry.  A line without a URI writes
\* its nickname and is then given up.
Written(c, n) ==
    [nickname  |-> IF n >= 1 THEN bookLine ELSE c.nickname,
     sipuri    |-> IF n >= 2 THEN bookLine ELSE c.sipuri,
     firstname |-> IF n >= 3 THEN bookLine ELSE c.firstname,
     lastname  |-> IF n >= 4 THEN bookLine ELSE c.lastname]

\* Faulty variant of ParseLine: a line without a URI keeps its entry.
ParseLineKeepsEntry ==
    /\ status = "parsing" /\ bookFound /\ bookLine <= Len(bookFile)
    /\ bookLine' = bookLine + 1
    /\ LET n == bookFile[bookLine]
           k == maxContact + 1
       IN  \/ n = 0 /\ UNCHANGED <<contacts, maxContact, status>>
           \/ /\ n >= 1 /\ k <= Slots
              /\ contacts' = [contacts EXCEPT ![k] = Written(@, n)]
              /\ maxContact' = k
              /\ UNCHANGED status
           \/ n >= 1 /\ k > Slots /\ status' = "overrun" /\ UNCHANGED <<contacts, maxContact>>
    /\ UNCHANGED <<bookFile, bookFound, guiVars>>

\* One turn of the loop: the next entry is taken for the line, without a look
\* at the size of the array, and given back when the line is not complete.
ParseLine ==
    /\ status = "parsing" /\ bookFound /\ bookLine <= Len(bookFile)
    /\ bookLine' = bookLine + 1
    /\ LET n == bookFile[bookLine]
           k == maxContact + 1
       IN  \/ n = 0 /\ UNCHANGED <<contacts, maxContact, status>>
           \/ /\ n >= 1 /\ k <= Slots
              /\ contacts' = [contacts EXCEPT ![k] = Written(@, n)]
              /\ maxContact' = IF n >= 2 THEN k ELSE maxContact
              /\ UNCHANGED status
           \/ n >= 1 /\ k > Slots /\ status' = "overrun" /\ UNCHANGED <<contacts, maxContact>>
    /\ UNCHANGED <<bookFile, bookFound, guiVars>>

\* SUI_IN_ADDRESS_BOOK at the end of the file.
Deliver ==
    /\ status = "parsing" /\ bookFound /\ bookLine > Len(bookFile)
    /\ gContacts' = TRUE /\ gContactsCount' = maxContact
    /\ status' = "ready"
    /\ UNCHANGED <<bookFile, bookFound, bookLine, contacts, maxContact, gCurPos, dialled>>

\* The file cannot be opened: the user interface is told nothing.
NotFound ==
    /\ status = "parsing" /\ ~bookFound
    /\ status' = "ready"
    /\ UNCHANGED <<bookFile, bookFound, bookLine, contacts, maxContact, guiVars>>

-----------------------------------------------------------------------------
(* The keys of the contact menu, in SUI_SIP_STATE_CONNECTED. *)

bookVars == <<bookFile, bookFound, bookLine, contacts, maxContact, gContacts, gContactsCount>>

\* gCurPos %= gContactsCount traps when there is no contact.
Down ==
    /\ status = "ready"
    /\ IF gContactsCount = 0
       THEN status' = "trapped" /\ UNCHANGED gCurPos
       ELSE gCurPos' = (gCurPos + 1) % gContactsCount /\ UNCHANGED status
    /\ UNCHANGED <<bookVars, dialled>>

\* Faulty variant of Up: the cursor wraps one step late.
UpWrapsLate ==
    /\ status = "ready"
    /\ gCurPos' = IF gCurPos < 0 THEN gContactsCount - 1 ELSE gCurPos - 1
    /\ UNCHANGED <<bookVars, dialled, status>>

Up ==
    /\ status = "ready"
    /\ gCurPos' = IF gCurPos - 1 < 0 THEN gContactsCount - 1 ELSE gCurPos - 1
    /\ UNCHANGED <<bookVars, dialled, status>>

\* X: gContacts[gCurPos].sipuri is dialled.  A null or negative entry is a wild
\* read; entry 0 of an empty book is blank.
Cross ==
    /\ status = "ready"
    /\ IF gContacts /\ gCurPos >= 0
       THEN dialled' = contacts[gCurPos + 1].sipuri /\ UNCHANGED status
       ELSE status' = "trapped" /\ UNCHANGED dialled
    /\ UNCHANGED <<bookVars, gCurPos>>

BookNext == ParseLine \/ Deliver \/ NotFound \/ Down \/ Up \/ Cross

BookSpec == BookInit /\ [][BookNext]_listVars

-----------------------------------------------------------------------------
\* The lines that make a contact, of the first n.
Complete(n) == {k \in 1 .. n : bookFile[k] >= 2}

\* Line l is the one that makes contact k.
Makes(l, k) == l \in Complete(Len(bookFile)) /\ Cardinality(Complete(l)) = k

\* The book holds exactly the complete lines read so far, in order, and each
\* contact only what its own line says: nothing of a line that was given up
\* shows through the line that reused its entry.  Past contacts[] it writes only
\* when complete lines have filled it: lines given up cost no entry.
BookIsExact ==
    /\ status # "overrun" =>
          /\ maxContact = Cardinality(Complete(bookLine - 1))
          /\ \A k \in 1 .. maxContact :
                LET l == contacts[k].sipuri
                IN  /\ Makes(l, k)
                    /\ contacts[k] =
                         [nickname  |-> l,
                          sipuri    |-> l,
                          firstname |-> IF bookFile[l] >= 3 THEN l ELSE 0,
                          lastname  |-> IF bookFile[l] >= 4 THEN l ELSE 0]
    /\ status = "overrun" => Cardinality(Complete(bookLine - 2)) = Slots

\* While there are contacts, the cursor of the menu is on one of them.
CursorOnContact == gContactsCount > 0 => gCurPos \in 0 .. gContactsCount - 1

\* In a book with contacts, X dials what the line under the cursor says, after
\* any walk through the menu; it never reads outside the book.
DialsUnderCursor ==
    [][Cross /\ gContactsCount > 0 =>
          status' = "ready" /\ Makes(dialled', gCurPos + 1)]_listVars
=============================================================================
