---------------------------- MODULE AddressLists ----------------------------
(***************************************************************************)
(* The lists of addresses (src/api/account/models.py: AddressList): the    *)
(* import of a CSV by an admin (src/api/account/admin.py: import_csv), row *)
(* by row with whatever fails passed over, and the check whether an        *)
(* address is on a list, in Python (src/api/account/api.py) and in Rust    *)
(* (src/rust-scorer/src/domain/allow_list.rs).                             *)
(***************************************************************************)
EXTENDS Integers, Sequences

CONSTANTS
  Imports,    \* the imports into the list that run at a time
  Addresses,
  Files,      \* the files: addresses, written in any case, and other lines
  Blank,      \* an empty line
  TooLong     \* a line that the column does not hold

VARIABLES
  listed,     \* whether the AddressList row exists
  members,    \* the AddressListMember rows
  importing,  \* the file of each import, and the row it has come to
  onList,     \* the answer of a check
  dropped     \* history: what was removed since each import began

listVars == <<listed, members, importing, onList, dropped>>

Idle == [file |-> <<>>, row |-> 0]
NoAnswer == [said |-> FALSE, is |-> FALSE, lower |-> TRUE]

ListTypeOK ==
  /\ listed \in BOOLEAN
  /\ members \subseteq Addresses
  /\ \A m \in Imports : /\ importing[m].file \in Files \cup {<<>>}
                        /\ importing[m].row \in 0..Len(importing[m].file) + 1
  /\ onList \in [said: BOOLEAN, is: BOOLEAN, lower: BOOLEAN]
  /\ dropped \in [Imports -> SUBSET Addresses]

ListInit ==
  /\ listed = TRUE
  /\ members = {}
  /\ importing = [m \in Imports |-> Idle]
  /\ onList = NoAnswer
  /\ dropped = [m \in Imports |-> {}]

-----------------------------------------------------------------------------
Drop(gone) ==
  /\ members' = members \ gone
  /\ dropped' = [m \in Imports |-> dropped[m] \cup gone]
  /\ onList' = NoAnswer
  /\ UNCHANGED importing

RemoveMember == \E a \in members : Drop({a}) /\ UNCHANGED listed

(* The members go with their list; what is still to come finds none.       *)
DeleteList == listed /\ listed' = FALSE /\ Drop(Addresses)

StartImport(m) ==
  /\ importing[m] = Idle
  /\ listed
  /\ \E file \in Files :
       importing' = [importing EXCEPT ![m] = [file |-> file, row |-> 1]]
  /\ dropped' = [dropped EXCEPT ![m] = {}]
  /\ onList' = NoAnswer
  /\ UNCHANGED <<listed, members>>

Current(m) == importing[m].file[importing[m].row]
Over(m) == Len(importing[m].file) + 1

(* Rows that are there, do not fit or have lost their list are counted as  *)
(* duplicates; an empty line has no first column and ends the import.  An  *)
(* address is stored in lower case.                                        *)
ImportRowOr(m, next) ==
  LET row == Current(m) IN
  /\ importing[m].row \in DOMAIN importing[m].file
  /\ importing' = [importing EXCEPT ![m] = IF row = Blank THEN Idle
                                           ELSE [@ EXCEPT !.row = next]]
  /\ members' = IF row \in {Blank, TooLong} \/ ~listed
                THEN members ELSE members \cup {row}
  /\ onList' = NoAnswer
  /\ UNCHANGED <<listed, dropped>>

ImportRow(m) == ImportRowOr(m, importing[m].row + 1)

(* Plausible bug: the first row that is there ends the import.             *)
ImportUntilDuplicate(m) ==
  ImportRowOr(m, IF Current(m) \in members THEN Over(m)
                 ELSE importing[m].row + 1)

ReportImport(m) ==
  /\ importing[m].row = Over(m)
  /\ importing[m] # Idle
  /\ importing' = [importing EXCEPT ![m] = Idle]
  /\ onList' = NoAnswer
  /\ UNCHANGED <<listed, members, dropped>>

ImportDies(m) ==
  /\ importing[m] # Idle
  /\ importing' = [importing EXCEPT ![m] = Idle]
  /\ onList' = NoAnswer
  /\ UNCHANGED <<listed, members, dropped>>

Check(a, lower, said) ==
  /\ onList' = [said |-> said, is |-> a \in members, lower |-> lower]
  /\ UNCHANGED <<listed, members, importing, dropped>>

(* The field of the model puts what it is compared with in lower case.     *)
CheckAllowList ==
  \E a \in Addresses : Check(a, TRUE, a \in members)

(* The query compares the address as it is written in the URL.             *)
CheckAllowListInRust ==
  \E a \in Addresses, lower \in BOOLEAN : Check(a, lower, lower /\ a \in members)

ListNext ==
  \/ RemoveMember \/ DeleteList \/ CheckAllowList \/ CheckAllowListInRust
  \/ \E m \in Imports :
       StartImport(m) \/ ImportRow(m) \/ ReportImport(m) \/ ImportDies(m)

-----------------------------------------------------------------------------
(* An import that reports its success has put every address of the file    *)
(* on the list that nobody removed meanwhile, also if some were there and  *)
(* another import ran; what it passes over as duplicates is on the list.   *)
ImportsAreWhole ==
  \A m \in Imports :
    LET file == importing[m].file IN
    importing[m].row = Over(m) =>
      {file[n] : n \in DOMAIN file} \cap Addresses \subseteq members \cup dropped[m]

(* A check says what the table says, but for one of Rust for an address    *)
(* that is not in lower case, which finds nobody.                          *)
ListChecksAreRight ==
  /\ onList.said => onList.is
  /\ onList.lower => (onList.is => onList.said)
=============================================================================
