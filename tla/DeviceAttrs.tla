---------------------------- MODULE DeviceAttrs ----------------------------
(***************************************************************************)
(* The sysfs attributes "size" and "buffer" of my_create_attr.c,           *)
(* my_create_group_attr.c and my_misc.c: any number of processes read      *)
(* (show) and write (store) the private data of the one device that has    *)
(* them, with no lock.  strlen and snprintf of buffer_show are two steps,  *)
(* and so are memset and memcpy of buffer_store.                           *)
(***************************************************************************)
EXTENDS Integers, FiniteSets, SequencesExt

CONSTANTS
  Proc,     \* the user processes
  Room,     \* the bytes of pdata->buffer (20 in the code)
  Texts,    \* what is written to "buffer", of any length
  Sizes,    \* the numbers that are written to "size"
  NoOne     \* "nobody"

\* A text, without its NUL.  Two of them are told apart by their names.
Text == [name : STRING, length : Nat]
Initial == [name |-> "tao", length |-> 3]
Empty == [name |-> "", length |-> 0]
Mixed == [name |-> "parts of several texts", length |-> 0]

ASSUME RoomAssumption == Room \in Nat /\ Initial.length < Room

ASSUME TextsAssumption == Texts \subseteq Text /\ Mixed \notin Texts

\* What "%d" shows as it is.
MaxInt == 2147483647

ASSUME SizesAssumption == Sizes \subseteq 0..MaxInt

VARIABLES
  size,     \* pdata->size
  buffer,   \* what pdata->buffer holds, and the bytes behind it if it is too long
  dev,      \* per process, whose attribute it is reading or writing
  at,       \* where in the handler it is, with the handler's locals
  text,     \* history: the text last stored; Mixed in a store, and if two ran together
  beside    \* history: the handlers that have run beside a store to the buffer

dataVars == <<size, buffer, text>>
attrVars == <<size, buffer, dev, at, text, beside>>

AttrsInit ==
  /\ size = 0 /\ buffer = Empty /\ text = Empty
  /\ dev = [p \in Proc |-> NoOne] /\ at = [p \in Proc |-> <<"none">>]
  /\ beside = {}

NoData == size' = 0 /\ buffer' = Empty /\ text' = Empty

\* The values that the three init functions give pdata.
NewData == size' = 100 /\ buffer' = Initial /\ text' = Initial

\* What strlen may find: the length of a text that leaves room for a NUL; of a
\* longer one that, or with what lies behind it.  Parts of several texts are not told
\* apart, their lengths neither.
strlen ==
  IF buffer.length < Room THEN {buffer.length} ELSE {buffer.length, buffer.length + 1}

\* How many of len characters snprintf leaves: one byte of its room is the NUL's.
snprintf(room, len) ==
  IF len < room THEN len ELSE IF room = 0 THEN 0 ELSE room - 1

\* The digits of a number; 4 stands for more, too.
digits(n) == IF n < 10 THEN 1 ELSE IF n < 100 THEN 2 ELSE IF n < 1000 THEN 3 ELSE 4

-----------------------------------------------------------------------------
\* Process p is in a handler of d's attribute, and has got d's private data.
Enter(p, d, step) ==
  /\ dev[p] = NoOne
  /\ dev' = [dev EXCEPT ![p] = d]
  /\ at' = [at EXCEPT ![p] = step]

InBuffer == {p \in Proc : at[p][1] \in {"memcpy", "snprintf", "buffer"}}
Storing == {p \in Proc : at[p][1] = "memcpy"}
Besides(p) == IF Storing = {} THEN beside ELSE beside \cup {p}

\* snprintf(buf, sizeof(int), "%d\n", data->size), as one step.
size_show(p, d) ==
  /\ Enter(p, d, <<"size", size, snprintf(4, digits(size) + 1)>>)
  /\ UNCHANGED <<dataVars, beside>>

\* kstrtoul, if a number is written; the handler is one step.
size_store(p) ==
  /\ dev[p] = NoOne
  /\ size' \in Sizes
  /\ UNCHANGED <<buffer, text, dev, at, beside>>

buffer_show(p, d) ==
  /\ \E n \in strlen : Enter(p, d, <<"snprintf", n>>)
  /\ beside' = Besides(p)
  /\ UNCHANGED dataVars

\* The room is the length found before plus extra: 1 where "+ 1" makes up for the
\* NUL, 0 in my_create_attr.c.  Text and newline are what there is now.
buffer_show_print(p, extra) ==
  /\ at[p][1] = "snprintf"
  /\ \E n \in strlen :
       at' = [at EXCEPT ![p] = <<"buffer", buffer, snprintf(@[2] + extra, n + 1)>>]
  /\ UNCHANGED <<dataVars, dev, beside>>

buffer_store_no_memset(p, d) ==
  \E t \in Texts :
    /\ Enter(p, d, <<"memcpy", t>>)
    /\ beside' = Besides(p) \cup InBuffer
    /\ text' = Mixed
    /\ UNCHANGED <<size, buffer>>

\* memset of the whole buffer ...
buffer_store(p, d) ==
  \E t \in Texts :
    /\ Enter(p, d, <<"memcpy", t>>)
    /\ buffer' = Empty /\ text' = Mixed
    /\ beside' = Besides(p) \cup InBuffer
    /\ UNCHANGED size

Leave(p) ==
  /\ dev' = [dev EXCEPT ![p] = NoOne]
  /\ at' = [at EXCEPT ![p] = <<"none">>]
  /\ beside' = beside \ {p}

\* ... and memcpy of the text, however long: over a longer one it leaves the end
\* of that, and one that does not fit goes on behind the buffer.
buffer_store_copy(p) ==
  /\ at[p][1] = "memcpy"
  /\ LET t == at[p][2]
     IN  /\ buffer' = IF buffer # Mixed /\ buffer.length <= t.length THEN t ELSE Mixed
         /\ text' = IF p \in beside THEN Mixed ELSE t
  /\ Leave(p)
  /\ UNCHANGED size

show_return(p) == at[p][1] \in {"size", "buffer"} /\ Leave(p) /\ UNCHANGED dataVars

-----------------------------------------------------------------------------
AttrsTypeOK ==
  /\ size \in Nat
  /\ buffer \in Texts \cup {Initial, Empty, Mixed}
  /\ text \in Texts \cup {Initial, Empty, Mixed}
  /\ \A p \in Proc :
       /\ at[p][1] \in {"none", "size", "snprintf", "buffer", "memcpy"}
       /\ dev[p] = NoOne <=> at[p] = <<"none">>
  /\ beside \subseteq {p \in Proc : dev[p] # NoOne}

\* If no store runs beside its own call or beside another one, and the text leaves
\* room for its NUL, process p reads the text stored last, all of it (with a NUL in
\* place of the newline).  A size of up to three digits is shown whole, others not.
ReadsBack(p) ==
  /\ at[p][1] = "buffer" /\ p \notin beside /\ text # Mixed /\ text.length < Room =>
       at[p][2] = text /\ at[p][3] = text.length
  /\ at[p][1] = "size" => (at[p][3] >= digits(at[p][2]) <=> at[p][2] < 1000)
=============================================================================
