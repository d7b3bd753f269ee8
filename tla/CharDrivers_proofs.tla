------------------------- MODULE CharDrivers_proofs -------------------------
(***************************************************************************)
(* The character drivers, for every set of them, every number of processes *)
(* and every room of the buffer: a device that is in use stays, and what a *)
(* reader of an attribute gets is the text stored last, if that leaves     *)
(* room for its NUL.  A module crashes only if a call of its init has      *)
(* failed.  If modules are loaded one at a time, those that come up own    *)
(* the device number and leave nothing behind.                             *)
(***************************************************************************)
EXTENDS CharDrivers, FiniteSetTheorems, SequenceTheorems, TLAPS

Calls == {"region", "cdev", "class", "device", "misc", "attrs", "pdata", "drvdata"}

\* The order in which init makes its calls, and exit.
InitOrder == [region |-> 1, misc |-> 1, cdev |-> 2, class |-> 3, device |-> 4,
              attrs |-> 5, pdata |-> 6, drvdata |-> 7]
ExitOrder == [attrs |-> 1, misc |-> 1, device |-> 2, class |-> 3, cdev |-> 4,
              region |-> 5, pdata |-> 6, drvdata |-> 7]
Ordered(s, order) == \A j, k \in 1..Len(s) : j < k => order[s[j]] < order[s[k]]

\* d has yet to make this call.
To(d, call) == \E k \in 1..Len(todo[d]) : todo[d][k] = call

AttrDrivers == Drivers \cap WithAttrs
ChrDrivers == Drivers \ {"my_misc"}

LoaderOK ==
  /\ mod \in [Drivers -> {"unloaded", "init", "live", "exit", "dead"}]
  /\ todo \in [Drivers -> Seq(Calls)]
  /\ \A d \in Drivers : mod[d] \in {"unloaded", "live"} => todo[d] = <<>>
  /\ failed \subseteq Drivers /\ pdata \subseteq Drivers \ {"sleepy"}
  /\ ptr \in [Drivers -> SUBSET {"my_class", "dev", "error"}]
  /\ OneAtATime => \A d, e \in Drivers : mod[d] # "unloaded" /\ mod[e] # "unloaded" => d = e

KernelOK ==
  /\ region \in Owner /\ node \in Owner
  /\ cdevs \in Seq(Drivers)
  /\ class \in [{"chardev0", "sleepy"} -> Owner]
  /\ misc \subseteq Drivers \cap {"my_misc"}
  /\ attrs \subseteq AttrDrivers /\ drvdata \subseteq AttrDrivers \cap pdata

UsersOK ==
  /\ file \in [Proc -> Owner] /\ private \subseteq Proc
  /\ dev \in [Proc -> Owner]

\* Which calls may be left: in the order of the list, and of d's own list.
OrderInv ==
  \A d \in Drivers :
    /\ mod[d] = "init" => Ordered(todo[d], InitOrder)
    /\ mod[d] = "exit" => Ordered(todo[d], ExitOrder)
    /\ d = "my_misc" =>
         ~To(d, "region") /\ ~To(d, "cdev") /\ ~To(d, "class") /\ ~To(d, "device")
    /\ d # "my_misc" => ~To(d, "misc")
    /\ d = "sleepy" => ~To(d, "pdata")
    /\ mod[d] = "init" /\ d \notin WithAttrs => ~To(d, "attrs") /\ ~To(d, "drvdata")
    /\ mod[d] = "exit" /\ d = "my_misc" => ~To(d, "pdata")

\* A driver whose init has got past its attributes has a device for them, and the
\* private data is on the device only when nothing is left to do.
AttrInv ==
  \A d \in AttrDrivers :
    /\ d \in attrs =>
         /\ d \notin failed /\ mod[d] # "unloaded"
         /\ d = "my_misc" \/ "dev" \in ptr[d]
         /\ mod[d] = "init" => ~To(d, "region") /\ ~To(d, "misc") /\ ~To(d, "attrs")
         /\ mod[d] = "exit" => To(d, "device") \/ To(d, "misc")
    /\ d \in drvdata =>
         /\ d # "my_misc" => node = d
         /\ mod[d] = "init" => todo[d] = <<>> \/ (d # "my_misc" /\ "dev" \notin ptr[d])
         /\ mod[d] = "exit" => To(d, "device") \/ To(d, "misc")
         /\ d = "my_misc" => mod[d] # "unloaded" /\ d \notin failed
    /\ d = "my_misc" /\ d \in failed /\ mod[d] = "init" => todo[d] = <<>>
    /\ mod[d] = "init" /\ To(d, "drvdata") /\ ~To(d, "pdata") => d \in pdata
    /\ mod[d] \in {"live", "exit"} \/ (mod[d] = "init" /\ ~To(d, "attrs")) =>
         d = "my_misc" \/ "dev" \in ptr[d]

\* An ERR_PTR or the device itself; and who is past init has not failed.
DeviceInv ==
  \A d \in Drivers :
    /\ "dev" \in ptr[d] /\ (mod[d] \in {"init", "live"} \/ (mod[d] = "exit" /\ To(d, "device")))
         => node = d
    /\ mod[d] \in {"live", "exit"} => d \notin failed

\* Who is in a handler of d is so after its init, or at its end.
HandlerInv ==
  \A p \in Proc : dev[p] # NoOne =>
    /\ mod[dev[p]] # "unloaded" /\ dev[p] \notin failed
    /\ mod[dev[p]] = "init" => todo[dev[p]] = <<>>

RegistryInv ==
  /\ LoaderOK /\ KernelOK /\ UsersOK
  /\ OrderInv /\ AttrInv /\ DeviceInv /\ HandlerInv /\ FilesPinned

-----------------------------------------------------------------------------
\* The buffer holds the text stored last, unless a store is under way; who stores
\* alone has found it empty, and whoever else is in show or store is beside him.
DataInv ==
  /\ text # Mixed => Storing = {} /\ buffer = text
  /\ \A p \in Storing : p \notin beside => buffer = Empty
  /\ \A q \in Storing : InBuffer \ {q} \subseteq beside
  /\ \A p \in Proc : at[p][1] = "memcpy" => at[p][2] \in Texts
  /\ \A p \in Proc :
       at[p][1] = "snprintf" /\ p \notin beside /\ text # Mixed /\ text.length < Room =>
         at[p][2] = text.length

\* at is a function; what of, the conditions on it say.
TextInv == AttrsTypeOK /\ (\E S : at \in [Proc -> S]) /\ DataInv /\ ShownWhole

-----------------------------------------------------------------------------
(* One module at a time *)

\* d has what this call registers.
Has(d, call) ==
  \/ mod[d] = "init" /\ ~To(d, call)
  \/ mod[d] = "live"
  \/ mod[d] = "exit" /\ To(d, call)

\* Nothing is registered, and none has failed; or one that has failed late has left
\* so much that no later one comes up.
Free ==
  /\ region = NoOne /\ node = NoOne /\ cdevs = <<>>
  /\ \A c \in {"chardev0", "sleepy"} : class[c] = NoOne
  /\ failed \cap ChrDrivers = {}

Taken == region # NoOne /\ node # NoOne /\ class["chardev0"] # NoOne

\* d has found nothing registered, and what is, it has registered.
Fresh(d) ==
  /\ region = IF Has(d, "region") THEN d ELSE NoOne
  /\ cdevs = IF Has(d, "cdev") THEN <<d>> ELSE <<>>
  /\ node = IF Has(d, "device") /\ "dev" \in ptr[d] THEN d ELSE NoOne
  /\ \A c \in {"chardev0", "sleepy"} :
       class[c] = IF c = ClassName(d) /\ Has(d, "class") /\ "my_class" \in ptr[d]
                  THEN d ELSE NoOne
  /\ "my_class" \in ptr[d] => mod[d] # "init" \/ Has(d, "class")
  /\ "dev" \in ptr[d] => "my_class" \in ptr[d] /\ (mod[d] # "init" \/ Has(d, "device"))
  /\ d \in pdata => Has(d, "pdata")
  /\ failed \cap ChrDrivers \subseteq {d}
  /\ d \in failed => mod[d] = "init" /\ ClassName(d) = "chardev0" /\ Has(d, "region")
                     /\ Has(d, "class") /\ Has(d, "device") /\ {"my_class", "dev"} \subseteq ptr[d]

\* d has found everything taken, and will not come up.
Doomed(d) ==
  /\ mod[d] = "init" /\ Taken /\ "dev" \notin ptr[d]
  /\ To(d, "region") \/ d \in failed

FreshOrDoomed ==
  \A d \in ChrDrivers : mod[d] \in {"init", "live", "exit"} => Fresh(d) \/ Doomed(d)

FreeOrTaken == (\A d \in ChrDrivers : mod[d] = "unloaded") => Free \/ Taken

\* The misc device is not among those with number 255:0, and goes with its module.
MiscApart ==
  /\ "my_misc" \in Drivers =>
       /\ region # "my_misc" /\ node # "my_misc" /\ ~Contains(cdevs, "my_misc")
       /\ \A c \in {"chardev0", "sleepy"} : class[c] # "my_misc"
  /\ \A d \in misc : mod[d] = "exit" => To(d, "misc")

\* A step of d leaves alone what is of the others.
OthersKeep(d) ==
  /\ \A e \in Drivers \ {d} : mod'[e] = mod[e] /\ todo'[e] = todo[e] /\ ptr'[e] = ptr[e]
  /\ failed' \ {d} = failed \ {d}
  /\ region' \in {region, d, NoOne} /\ node' \in {node, d, NoOne}
  /\ \A e \in Drivers \ {d} : Contains(cdevs', e) => Contains(cdevs, e)
  /\ \A c \in {"chardev0", "sleepy"} : class'[c] \in {class[c], d, NoOne}
  /\ misc' \subseteq misc \cup {d} /\ attrs' \subseteq attrs \cup {d}
  /\ drvdata' \subseteq drvdata \cup {d} /\ pdata' \subseteq pdata \cup {d}

AloneInv == FreshOrDoomed /\ FreeOrTaken /\ MiscApart /\ NothingLeftBehind

IInv == RegistryInv /\ TextInv

-----------------------------------------------------------------------------
(* Only an error crashes a module *)

\* The init function of d, if that is where d is, has made this call.
Past(d, call) == (mod[d] = "init" /\ ~To(d, call)) \/ mod[d] \in {"live", "exit"}

\* What d has not got, it has got an error for; what it has got is still there when
\* exit follows it; and its attributes find their data when its init has returned.
CrashOK(d) ==
  /\ mod[d] = "dead" => "error" \in ptr[d]
  /\ d # "my_misc" /\ Past(d, "class") => ptr[d] \cap {"my_class", "error"} # {}
  /\ d # "my_misc" /\ Past(d, "device") => ptr[d] \cap {"dev", "error"} # {}
  /\ "my_class" \in ptr[d] /\ (mod[d] \in {"init", "live"} \/ (mod[d] = "exit" /\ To(d, "class")))
       => class[ClassName(d)] = d
  /\ mod[d] = "init" =>
       /\ To(d, "attrs") => To(d, "drvdata")
       /\ d = "my_misc" => To(d, "misc") \/ ~To(d, "attrs") \/ d \in misc
       /\ d \in attrs /\ ~To(d, "drvdata") => d \in drvdata
  /\ mod[d] = "live" /\ d \in attrs => d \in drvdata
  /\ mod[d] = "exit" /\ To(d, "attrs") => To(d, "device")
  /\ mod[d] = "exit" /\ To(d, "device") => To(d, "class")

CrashInv == \A d \in Drivers : CrashOK(d)

-----------------------------------------------------------------------------
(* Facts about the operators *)

\* A text has a name and a length, which Mixed and Empty have in common.
LEMMA TextFacts ==
  /\ Room \in Nat
  /\ \A t \in Texts \cup {Initial, Empty, Mixed} : t.length \in Nat
  /\ \A t \in Texts \cup {Initial, Empty} : t # Mixed
  /\ Empty.length = 0
<1>1. \A t \in Text : t.length \in Nat
  BY DEF Text
<1>2. Initial.length \in Nat /\ Empty.length = 0 /\ Mixed.length \in Nat
  BY DEF Initial, Empty, Mixed
<1>3. Initial # Mixed
  <2>1. Initial.length = 3 /\ Mixed.length = 0
    BY DEF Initial, Mixed
  <2> QED BY <2>1
<1>4. Empty # Mixed
  <2>1. Empty.name = "" /\ Mixed.name = "parts of several texts"
    BY DEF Empty, Mixed
  <2>2. "" # "parts of several texts"
    OBVIOUS
  <2> QED BY <2>1, <2>2, Zenon
<1> QED BY <1>1, <1>2, <1>3, <1>4, RoomAssumption, TextsAssumption

\* What is left of a text and a newline, if the room is that of the text and a NUL.
LEMMA NewlineLost ==
  ASSUME NEW n \in Nat
  PROVE  snprintf(n + 1, n + 1) = n
BY DEF snprintf

\* Four bytes are the room of three digits.
LEMMA ThreeDigits ==
  ASSUME NEW n \in Nat
  PROVE  snprintf(4, digits(n) + 1) >= digits(n) <=> n < 1000
<1>1. CASE n < 1000
  <2>1. digits(n) \in 1..3
    BY <1>1 DEF digits
  <2>2. \A k \in 1..3 : snprintf(4, k + 1) >= k
    BY DEF snprintf
  <2> QED BY <1>1, <2>1, <2>2
<1>2. CASE ~(n < 1000)
  <2>1. digits(n) = 4
    BY <1>2 DEF digits
  <2>2. ~(snprintf(4, 4 + 1) >= 4)
    BY DEF snprintf
  <2> QED BY <1>2, <2>1, <2>2
<1> QED BY <1>1, <1>2

\* What a step of process p leaves in at.
LEMMA AtStep ==
  ASSUME NEW S, at \in [Proc -> S], NEW p \in Proc, NEW v, at' = [at EXCEPT ![p] = v]
  PROVE  /\ \E T : at' \in [Proc -> T]
         /\ at'[p] = v /\ \A q \in Proc : q # p => at'[q] = at[q]
<1>1. at' \in [Proc -> S \cup {v}]
  OBVIOUS
<1> QED BY <1>1

-----------------------------------------------------------------------------
(* The handlers of the attributes *)

\* While nobody is in a handler, the data may be renewed.
LEMMA RenewText ==
  ASSUME TextInv, UsersOK, \A p \in Proc : dev[p] = NoOne,
         NEW t \in {Empty, Initial}, text' = t, buffer' = t, size' \in Nat,
         UNCHANGED <<dev, at, beside>>
  PROVE  TextInv'
<1>1. \A p \in Proc : at[p] = <<"none">>
  BY DEF TextInv, AttrsTypeOK
<1>2. \A p \in Proc : at[p][1] = "none"
  BY <1>1
<1>3. Storing' = {}
  BY <1>2 DEF Storing
<1>4. DataInv'
  BY <1>2, <1>3 DEF DataInv
<1>5. AttrsTypeOK'
  BY <1>1 DEF TextInv, AttrsTypeOK
<1>6. ShownWhole'
  BY <1>2 DEF ShownWhole, ReadsBack
<1>7. (\E S : at \in [Proc -> S])'
  BY DEF TextInv
<1> QED BY <1>4, <1>5, <1>6, <1>7 DEF TextInv

\* Who is where he was still has what he had, if the text is the same or is mixed.
LEMMA ReadsBackSame ==
  ASSUME NEW q \in Proc, at'[q] = at[q], text' \in {text, Mixed},
         q \in beside => q \in beside', ReadsBack(q)
  PROVE  ReadsBack(q)'
BY DEF ReadsBack

LEMMA MaxIntNat == MaxInt \in Nat
BY DEF MaxInt

LEMMA SizesAreNat == \A n \in Sizes : n \in Nat
BY SizesAssumption, MaxIntNat

LEMMA SizeShowText ==
  ASSUME TextInv, UsersOK, NEW p \in Proc, NEW d \in Drivers, size_show(p, d)
  PROVE  TextInv'
<1> DEFINE v == <<"size", size, snprintf(4, digits(size) + 1)>>
<1>1. /\ dev[p] = NoOne /\ dev' = [dev EXCEPT ![p] = d] /\ at' = [at EXCEPT ![p] = v]
      /\ UNCHANGED <<size, buffer, text, beside>>
  BY DEF size_show, Enter, dataVars
<1>2. v[1] = "size" /\ v[2] = size /\ v # <<"none">>
      /\ v[3] = snprintf(4, digits(size) + 1)
  OBVIOUS
<1> HIDE DEF v
<1>3. /\ (\E S : at \in [Proc -> S])' /\ at'[p] = v
      /\ \A q \in Proc : q # p => at'[q] = at[q]
  BY <1>1, AtStep DEF TextInv
<1>4. dev'[p] = d /\ d # NoOne /\ \A q \in Proc : q # p => dev'[q] = dev[q]
  BY <1>1, DriversAssumption DEF UsersOK
<1>5. v[3] >= digits(size) <=> size < 1000
  <2>1. size \in Nat
    BY DEF TextInv, AttrsTypeOK
  <2> QED BY <1>2, <2>1, ThreeDigits
<1>6. DataInv'
  <2>1. Storing' = Storing /\ InBuffer' = InBuffer
    <3>1. at[p] = <<"none">>
      BY <1>1 DEF TextInv, AttrsTypeOK
    <3>2. at[p][1] = "none" /\ at'[p][1] = "size"
      BY <1>2, <1>3, <3>1
    <3> QED BY <1>3, <3>2 DEF Storing, InBuffer
  <2> QED BY <1>1, <1>2, <1>3, <2>1 DEF TextInv, DataInv
<1>7. AttrsTypeOK'
  BY <1>1, <1>2, <1>3, <1>4 DEF TextInv, AttrsTypeOK
<1>8. ShownWhole'
  <2>1. ReadsBack(p)'
    <3>1. at'[p][1] = "size" /\ at'[p][2] = size /\ at'[p][3] = v[3]
      BY <1>2, <1>3
    <3> QED BY <1>5, <3>1, Zenon DEF ReadsBack
  <2>2. ASSUME NEW q \in Proc, q # p, ReadsBack(q) PROVE ReadsBack(q)'
    <3>1. at'[q] = at[q] /\ text' = text /\ beside' = beside
      BY <1>1, <1>3, <2>2
    <3> QED BY <2>2, <3>1, ReadsBackSame
  <2> QED BY <1>4, <2>1, <2>2 DEF TextInv, ShownWhole
<1> QED BY <1>3, <1>6, <1>7, <1>8 DEF TextInv

LEMMA SizeStoreText ==
  ASSUME TextInv, NEW p \in Proc, size_store(p)
  PROVE  TextInv'
<1>1. UNCHANGED <<buffer, text, dev, at, beside>>
  BY DEF size_store
<1>2. AttrsTypeOK'
  <2>1. size' \in Sizes
    BY DEF size_store
  <2>2. size' \in Nat
    BY <2>1, SizesAreNat
  <2> QED BY <1>1, <2>2 DEF TextInv, AttrsTypeOK
<1>3. DataInv'
  BY <1>1 DEF TextInv, DataInv, Storing, InBuffer
<1>4. ShownWhole'
  BY <1>1, ReadsBackSame DEF TextInv, ShownWhole
<1>5. (\E S : at \in [Proc -> S])'
  BY <1>1 DEF TextInv
<1> QED BY <1>2, <1>3, <1>4, <1>5 DEF TextInv

LEMMA BufferShowText ==
  ASSUME TextInv, UsersOK, NEW p \in Proc, NEW d \in Drivers, buffer_show(p, d)
  PROVE  TextInv'
<1>1. PICK n \in strlen :
        /\ dev[p] = NoOne /\ dev' = [dev EXCEPT ![p] = d]
        /\ at' = [at EXCEPT ![p] = <<"snprintf", n>>]
        /\ beside' = Besides(p) /\ UNCHANGED <<size, buffer, text>>
  BY DEF buffer_show, Enter, dataVars
<1> DEFINE v == <<"snprintf", n>>
<1>2. v[1] = "snprintf" /\ v[2] = n /\ v # <<"none">> /\ at' = [at EXCEPT ![p] = v]
  BY <1>1
<1> HIDE DEF v
<1>3. /\ (\E S : at \in [Proc -> S])' /\ at'[p] = v
      /\ \A q \in Proc : q # p => at'[q] = at[q]
  BY <1>2, AtStep DEF TextInv
<1>4. dev'[p] = d /\ d # NoOne /\ \A q \in Proc : q # p => dev'[q] = dev[q]
  BY <1>1, DriversAssumption DEF UsersOK
<1>5. /\ beside' \subseteq beside \cup {p} /\ beside \subseteq beside'
      /\ Storing # {} => p \in beside'
  BY <1>1 DEF Besides
<1>6. Storing' = Storing /\ p \notin Storing /\ InBuffer' = InBuffer \cup {p}
  <2>1. at[p] = <<"none">>
    BY <1>1 DEF TextInv, AttrsTypeOK
  <2>2. at[p][1] = "none" /\ at'[p][1] = "snprintf"
    BY <1>2, <1>3, <2>1
  <2> QED BY <1>3, <2>2 DEF Storing, InBuffer
<1>7. DataInv'
  <2>1. text # Mixed /\ text.length < Room => n = text.length
    BY DEF strlen, TextInv, DataInv
  <2>2. \A q \in Storing' : InBuffer' \ {q} \subseteq beside'
    BY <1>5, <1>6 DEF TextInv, DataInv
  <2>3. \A q \in Storing' : q \notin beside' => buffer' = Empty
    BY <1>1, <1>5, <1>6 DEF TextInv, DataInv
  <2>4. text' # Mixed => Storing' = {} /\ buffer' = text'
    BY <1>1, <1>6 DEF TextInv, DataInv
  <2>5. \A q \in Proc : at'[q][1] = "memcpy" => at'[q][2] \in Texts
    BY <1>2, <1>3 DEF TextInv, DataInv
  <2>6. \A q \in Proc : at'[q][1] = "snprintf" /\ q \notin beside' /\ text' # Mixed
          /\ text'.length < Room => at'[q][2] = text'.length
    BY <1>1, <1>2, <1>3, <1>5, <2>1 DEF TextInv, DataInv
  <2> QED BY <2>2, <2>3, <2>4, <2>5, <2>6 DEF DataInv
<1>8. AttrsTypeOK'
  BY <1>1, <1>2, <1>3, <1>4, <1>5 DEF TextInv, AttrsTypeOK
<1>9. ShownWhole'
  <2>1. ReadsBack(p)'
    BY <1>2, <1>3 DEF ReadsBack
  <2>2. ASSUME NEW q \in Proc, q # p, ReadsBack(q) PROVE ReadsBack(q)'
    <3>1. at'[q] = at[q] /\ text' = text /\ (q \in beside' <=> q \in beside)
      BY <1>1, <1>3, <1>5, <2>2
    <3> QED BY <2>2, <3>1, ReadsBackSame
  <2> QED BY <1>4, <2>1, <2>2 DEF TextInv, ShownWhole
<1> QED BY <1>3, <1>7, <1>8, <1>9 DEF TextInv

LEMMA BufferPrintText ==
  ASSUME TextInv, UsersOK, NEW p \in Proc, buffer_show_print(p, Extra(dev[p]))
  PROVE  TextInv'
<1>1. PICK n \in strlen :
        /\ at[p][1] = "snprintf"
        /\ at' = [at EXCEPT ![p] =
                   <<"buffer", buffer, snprintf(at[p][2] + Extra(dev[p]), n + 1)>>]
        /\ UNCHANGED <<size, buffer, text, dev, beside>>
  BY DEF buffer_show_print, dataVars, TextInv
<1> DEFINE kept == snprintf(at[p][2] + Extra(dev[p]), n + 1)
           v == <<"buffer", buffer, kept>>
<1>2. /\ v[1] = "buffer" /\ v[2] = buffer /\ v[3] = kept /\ v # <<"none">>
      /\ at' = [at EXCEPT ![p] = v]
  BY <1>1
<1>3. dev[p] # "my_create_attr" /\ p \notin beside /\ text # Mixed /\ text.length < Room =>
        buffer = text /\ kept = text.length
  <2> SUFFICES ASSUME dev[p] # "my_create_attr", p \notin beside, text # Mixed,
                      text.length < Room
               PROVE  buffer = text /\ kept = text.length
    OBVIOUS
  <2>1. buffer = text /\ n = text.length /\ at[p][2] = text.length
    BY <1>1 DEF strlen, TextInv, DataInv
  <2>2. text.length \in Nat
    BY TextFacts DEF TextInv, AttrsTypeOK
  <2> HIDE DEF kept
  <2>3. kept = snprintf(text.length + 1, text.length + 1)
    BY <2>1 DEF kept, Extra
  <2> QED BY <2>1, <2>2, <2>3, NewlineLost
<1> HIDE DEF v, kept
<1>4. /\ (\E S : at \in [Proc -> S])' /\ at'[p] = v
      /\ \A q \in Proc : q # p => at'[q] = at[q]
  BY <1>2, AtStep DEF TextInv
<1>5. dev[p] # NoOne
  <2>1. at[p] # <<"none">>
    BY <1>1
  <2> QED BY <2>1 DEF TextInv, AttrsTypeOK
<1>6. Storing' = Storing /\ InBuffer' = InBuffer
  BY <1>1, <1>2, <1>4 DEF Storing, InBuffer
<1>7. DataInv'
  BY <1>1, <1>2, <1>4, <1>6 DEF TextInv, DataInv
<1>8. AttrsTypeOK'
  BY <1>1, <1>2, <1>4, <1>5 DEF TextInv, AttrsTypeOK
<1>9. ShownWhole'
  <2>1. dev[p] # "my_create_attr" => ReadsBack(p)'
    BY <1>1, <1>2, <1>3, <1>4 DEF ReadsBack
  <2>2. ASSUME NEW q \in Proc, q # p, ReadsBack(q) PROVE ReadsBack(q)'
    <3>1. at'[q] = at[q] /\ text' = text /\ (q \in beside' <=> q \in beside)
      BY <1>1, <1>4, <2>2
    <3> QED BY <2>2, <3>1, ReadsBackSame
  <2> QED BY <1>1, <2>1, <2>2 DEF TextInv, ShownWhole
<1> QED BY <1>4, <1>7, <1>8, <1>9 DEF TextInv

LEMMA BufferStoreText ==
  ASSUME TextInv, UsersOK, NEW p \in Proc, NEW d \in Drivers, buffer_store(p, d)
  PROVE  TextInv'
<1>1. PICK t \in Texts :
        /\ dev[p] = NoOne /\ dev' = [dev EXCEPT ![p] = d]
             /\ at' = [at EXCEPT ![p] = <<"memcpy", t>>]
        /\ buffer' = Empty /\ text' = Mixed /\ size' = size
        /\ beside' = Besides(p) \cup InBuffer
  BY DEF buffer_store, Enter
<1> DEFINE v == <<"memcpy", t>>
<1>2. v[1] = "memcpy" /\ v[2] = t /\ v # <<"none">> /\ at' = [at EXCEPT ![p] = v]
  BY <1>1
<1> HIDE DEF v
<1>3. /\ (\E S : at \in [Proc -> S])' /\ at'[p] = v
      /\ \A q \in Proc : q # p => at'[q] = at[q]
  BY <1>2, AtStep DEF TextInv
<1>4. dev'[p] = d /\ d # NoOne /\ \A q \in Proc : q # p => dev'[q] = dev[q]
  BY <1>1, DriversAssumption DEF UsersOK
<1>5. at[p][1] = "none"
  <2>1. at[p] = <<"none">>
    BY <1>1 DEF TextInv, AttrsTypeOK
  <2> QED BY <2>1
<1>6. /\ Storing' = Storing \cup {p} /\ p \notin Storing
      /\ InBuffer' = InBuffer \cup {p} /\ p \notin InBuffer
  BY <1>2, <1>3, <1>5 DEF Storing, InBuffer
<1>7. /\ beside \subseteq beside' /\ (Storing # {} => p \in beside')
      /\ InBuffer \subseteq beside' /\ beside' \subseteq beside \cup {p} \cup InBuffer
  BY <1>1 DEF Besides
<1>8. DataInv'
  <2>1. \A q \in Storing' : InBuffer' \ {q} \subseteq beside'
    BY <1>6, <1>7
  <2>2. \A q \in Proc : at'[q][1] = "memcpy" => at'[q][2] \in Texts
    BY <1>2, <1>3 DEF TextInv, DataInv
  <2> QED BY <1>1, <2>1, <2>2 DEF DataInv
<1>9. AttrsTypeOK'
  <2>1. \A q \in InBuffer : q \in Proc /\ dev[q] # NoOne
    <3>1. \A q \in Proc : at[q] = <<"none">> => at[q][1] = "none"
      OBVIOUS
    <3> QED BY <3>1 DEF TextInv, AttrsTypeOK, InBuffer
  <2>2. beside' \subseteq {q \in Proc : dev'[q] # NoOne}
    BY <1>4, <1>7, <2>1 DEF TextInv, AttrsTypeOK
  <2> QED BY <1>1, <1>2, <1>3, <1>4, <2>2 DEF TextInv, AttrsTypeOK
<1>10. ShownWhole'
  <2>1. ReadsBack(p)'
    BY <1>2, <1>3 DEF ReadsBack
  <2>2. ASSUME NEW q \in Proc, q # p, ReadsBack(q) PROVE ReadsBack(q)'
    <3>1. at'[q] = at[q] /\ text' = Mixed /\ (q \in beside => q \in beside')
      BY <1>1, <1>3, <1>7, <2>2
    <3> QED BY <2>2, <3>1, ReadsBackSame
  <2> QED BY <1>4, <2>1, <2>2 DEF TextInv, ShownWhole
<1> QED BY <1>3, <1>8, <1>9, <1>10 DEF TextInv

\* A process leaves its handler.
LEMMA LeaveFacts ==
  ASSUME TextInv, UsersOK, NEW p \in Proc, Leave(p)
  PROVE  /\ (\E S : at \in [Proc -> S])' /\ at'[p] = <<"none">> /\ at'[p][1] = "none"
         /\ \A q \in Proc : q # p => at'[q] = at[q] /\ (q \in beside' <=> q \in beside)
         /\ dev'[p] = NoOne /\ \A q \in Proc : q # p => dev'[q] = dev[q]
         /\ p \notin beside' /\ beside' \subseteq beside
         /\ Storing' = Storing \ {p} /\ InBuffer' = InBuffer \ {p}
<1>1. at' = [at EXCEPT ![p] = <<"none">>]
  BY DEF Leave
<1>2. /\ (\E S : at \in [Proc -> S])' /\ at'[p] = <<"none">>
      /\ \A q \in Proc : q # p => at'[q] = at[q]
  BY <1>1, AtStep DEF TextInv
<1>3. at'[p][1] = "none"
  BY <1>2
<1>4. Storing' = Storing \ {p} /\ InBuffer' = InBuffer \ {p}
  BY <1>2, <1>3 DEF Storing, InBuffer
<1> QED BY <1>2, <1>3, <1>4 DEF Leave, UsersOK

LEMMA ReturnText ==
  ASSUME TextInv, UsersOK, NEW p \in Proc, show_return(p)
  PROVE  TextInv'
<1>1. Leave(p) /\ at[p][1] # "memcpy" /\ UNCHANGED <<size, buffer, text>>
  BY DEF show_return, dataVars
<1> USE LeaveFacts
<1>2. Storing' = Storing /\ p \notin Storing
  BY <1>1 DEF Storing
<1>3. DataInv'
  <2>1. \A q \in Storing : q # p
    BY <1>2
  <2>2. InBuffer' \subseteq InBuffer /\ \A u \in InBuffer' : u # p
    BY <1>1
  <2>3. \A q \in Storing' : InBuffer' \ {q} \subseteq beside'
    <3>1. \A q \in Storing : InBuffer \ {q} \subseteq beside
      BY DEF TextInv, DataInv
    <3>2. \A u \in InBuffer' : u \in beside => u \in beside'
      BY <1>1, <2>2 DEF InBuffer
    <3> HIDE LeaveFacts
    <3> QED BY <1>2, <2>2, <3>1, <3>2
  <2>4. \A q \in Storing' : q \notin beside' => buffer' = Empty
    BY <1>1, <1>2, <2>1 DEF TextInv, DataInv, Storing
  <2>5. \A q \in Proc : at'[q][1] = "memcpy" => at'[q][2] \in Texts
    BY <1>1 DEF TextInv, DataInv
  <2>6. \A q \in Proc : at'[q][1] = "snprintf" /\ q \notin beside' /\ text' # Mixed
          /\ text'.length < Room => at'[q][2] = text'.length
    BY <1>1 DEF TextInv, DataInv
  <2>7. text' # Mixed => Storing' = {} /\ buffer' = text'
    BY <1>1, <1>2 DEF TextInv, DataInv
  <2> QED BY <2>3, <2>4, <2>5, <2>6, <2>7 DEF DataInv
<1>4. AttrsTypeOK'
  <2>1. \A q \in Proc : q # p =>
          /\ at'[q][1] \in {"none", "size", "snprintf", "buffer", "memcpy"}
          /\ dev'[q] = NoOne <=> at'[q] = <<"none">>
    BY <1>1 DEF TextInv, AttrsTypeOK
  <2>2. /\ at'[p][1] \in {"none", "size", "snprintf", "buffer", "memcpy"}
        /\ dev'[p] = NoOne <=> at'[p] = <<"none">>
    BY <1>1
  <2>3. beside' \subseteq {q \in Proc : dev'[q] # NoOne}
    BY <1>1 DEF TextInv, AttrsTypeOK
  <2> HIDE LeaveFacts
  <2> QED BY <1>1, <2>1, <2>2, <2>3 DEF TextInv, AttrsTypeOK
<1>5. ShownWhole'
  <2>1. ReadsBack(p)'
    BY <1>1 DEF ReadsBack
  <2>2. ASSUME NEW q \in Proc, q # p, ReadsBack(q) PROVE ReadsBack(q)'
    <3>1. at'[q] = at[q] /\ (q \in beside' <=> q \in beside) /\ text' = text
      BY <1>1, <2>2
    <3> HIDE LeaveFacts
    <3> QED BY <2>2, <3>1, ReadsBackSame
  <2> QED BY <1>1, <2>1, <2>2 DEF TextInv, ShownWhole
<1> QED BY <1>1, <1>3, <1>4, <1>5 DEF TextInv

\* Alone, memcpy makes the text of an empty buffer; and nobody is left who has
\* measured or printed another text and is not beside.
LEMMA CopyText ==
  ASSUME TextInv, UsersOK, NEW p \in Proc, buffer_store_copy(p)
  PROVE  TextInv'
<1> DEFINE t == at[p][2]
<1>1. /\ at[p][1] = "memcpy" /\ Leave(p) /\ size' = size
      /\ buffer' = IF buffer # Mixed /\ buffer.length <= t.length THEN t ELSE Mixed
      /\ text' = IF p \in beside THEN Mixed ELSE t
  BY DEF buffer_store_copy
<1>2. p \in Storing /\ text = Mixed
  BY <1>1 DEF TextInv, DataInv, Storing
<1>3. t \in Texts /\ t # Mixed /\ t.length \in Nat
  BY <1>1, TextFacts DEF TextInv, DataInv
<1> HIDE DEF t
<1>4. p \notin beside => Storing = {p} /\ buffer' = t
  <2> SUFFICES ASSUME p \notin beside PROVE Storing = {p} /\ buffer' = t
    OBVIOUS
  <2>1. \A q \in Storing : q = p
    BY <1>1 DEF TextInv, DataInv, Storing, InBuffer
  <2>2. buffer = Empty
    BY <1>2 DEF TextInv, DataInv
  <2>3. buffer # Mixed /\ buffer.length <= t.length
    BY <1>3, <2>2, TextFacts
  <2> QED BY <1>1, <1>2, <2>1, <2>3
<1>5. p \notin beside => InBuffer \ {p} \subseteq beside
  BY <1>2 DEF TextInv, DataInv
<1>6. text' \in {t, Mixed} /\ buffer' \in {t, Mixed}
  BY <1>1
<1> USE LeaveFacts
<1>7. DataInv'
  <2>1. \A q \in Storing' : q \in Storing /\ q # p
    BY <1>1
  <2>2. text' # Mixed => Storing' = {} /\ buffer' = text'
    BY <1>1, <1>4
  <2>3. \A q \in Storing' : q \notin beside' => buffer' = Empty
    <3>1. \A q \in Storing' : q \in beside
      BY <1>2, <2>1 DEF TextInv, DataInv, Storing, InBuffer
    <3> QED BY <1>1, <2>1, <3>1 DEF Storing
  <2>4. \A q \in Storing' : InBuffer' \ {q} \subseteq beside'
    <3>1. \A u \in InBuffer' : u \in InBuffer /\ u # p /\ u \in Proc
      BY <1>1 DEF InBuffer
    <3>2. \A q \in Storing : \A u \in InBuffer : u # q => u \in beside
      BY DEF TextInv, DataInv
    <3> QED BY <1>1, <2>1, <3>1, <3>2
  <2>5. \A u \in Proc : at'[u][1] = "memcpy" => at'[u][2] \in Texts
    BY <1>1 DEF TextInv, DataInv
  <2>6. \A u \in Proc : at'[u][1] = "snprintf" /\ u \notin beside' => text' = Mixed
    <3>1. \A u \in Proc : at[u][1] = "snprintf" => u \in InBuffer
      BY DEF InBuffer
    <3> QED BY <1>1, <1>5, <3>1
  <2> QED BY <2>2, <2>3, <2>4, <2>5, <2>6 DEF DataInv
<1>8. AttrsTypeOK'
  <2>1. /\ text' \in Texts \cup {Initial, Empty, Mixed}
        /\ buffer' \in Texts \cup {Initial, Empty, Mixed}
    BY <1>3, <1>6
  <2> QED BY <1>1, <2>1 DEF TextInv, AttrsTypeOK
<1>9. ShownWhole'
  <2>1. ReadsBack(p)'
    BY <1>1 DEF ReadsBack
  <2>2. ASSUME NEW q \in Proc, q # p, ReadsBack(q) PROVE ReadsBack(q)'
    <3>1. at'[q] = at[q] /\ (q \in beside' <=> q \in beside)
      BY <1>1, <2>2
    <3>2. at[q][1] = "buffer" => q \in beside \/ text' = Mixed
      BY <1>1, <1>5, <2>2 DEF InBuffer
    <3> HIDE LeaveFacts
    <3>3. CASE at[q][1] = "buffer"
      <4>1. at'[q][1] # "size" /\ (q \in beside' \/ text' = Mixed)
        BY <3>1, <3>2, <3>3
      <4> QED BY <4>1, Zenon DEF ReadsBack
    <3>4. CASE at[q][1] # "buffer"
      BY <2>2, <3>1, <3>4 DEF ReadsBack
    <3> QED BY <3>3, <3>4
  <2> QED BY <1>1, <2>1, <2>2 DEF TextInv, ShownWhole
<1> QED BY <1>1, <1>7, <1>8, <1>9 DEF TextInv

-----------------------------------------------------------------------------
(* The calls that are left *)

LEMMA OrderFacts ==
  /\ InitOrder \in [Calls -> 1..7] /\ ExitOrder \in [Calls -> 1..7]
  /\ InitOrder["region"] = 1 /\ InitOrder["misc"] = 1 /\ InitOrder["cdev"] = 2
  /\ InitOrder["class"] = 3 /\ InitOrder["device"] = 4 /\ InitOrder["attrs"] = 5
  /\ InitOrder["pdata"] = 6 /\ InitOrder["drvdata"] = 7
  /\ ExitOrder["attrs"] = 1 /\ ExitOrder["misc"] = 1 /\ ExitOrder["device"] = 2
  /\ ExitOrder["class"] = 3 /\ ExitOrder["cdev"] = 4 /\ ExitOrder["region"] = 5
  /\ ExitOrder["pdata"] = 6 /\ ExitOrder["drvdata"] = 7
BY DEF InitOrder, ExitOrder, Calls

LEMMA DriverNames ==
  \A d \in Drivers :
    d \in {"my_chrdev", "my_create_attr", "my_create_group_attr", "sleepy", "my_misc"}
BY DriversAssumption DEF WithAttrs

LEMMA InitCallsAre ==
  /\ InitCalls("my_misc") = <<"misc", "attrs", "pdata", "drvdata">>
  /\ InitCalls("sleepy") = <<"region", "cdev", "class", "device">>
  /\ InitCalls("my_chrdev") = <<"region", "cdev", "class", "device", "pdata">>
  /\ InitCalls("my_create_attr") =
       <<"region", "cdev", "class", "device", "attrs", "pdata", "drvdata">>
  /\ InitCalls("my_create_group_attr") =
       <<"region", "cdev", "class", "device", "attrs", "pdata", "drvdata">>
BY DEF InitCalls

LEMMA ExitCallsAre ==
  /\ ExitCalls("my_misc") = <<"misc">>
  /\ ExitCalls("sleepy") = <<"device", "class", "cdev", "region">>
  /\ ExitCalls("my_chrdev") = <<"device", "class", "cdev", "region", "pdata">>
  /\ ExitCalls("my_create_attr") = <<"device", "class", "cdev", "region", "pdata">>
  /\ ExitCalls("my_create_group_attr") =
       <<"attrs", "device", "class", "cdev", "region", "pdata">>
BY DEF ExitCalls

\* What insmod puts before d: all its calls, in order.
LEMMA InitToDo ==
  ASSUME NEW d \in Drivers
  PROVE  LET s == InitCalls(d) IN
         /\ s \in Seq(Calls) /\ Ordered(s, InitOrder)
         /\ \A c : (\E k \in 1..Len(s) : s[k] = c) <=>
              \/ d = "my_misc" /\ c \in {"misc", "attrs", "pdata", "drvdata"}
              \/ d # "my_misc" /\ c \in {"region", "cdev", "class", "device"}
              \/ d \notin {"my_misc", "sleepy"} /\ c = "pdata"
              \/ d \in WithAttrs \ {"my_misc"} /\ c \in {"attrs", "drvdata"}
<1> DEFINE s == InitCalls(d)
<1>1. CASE d = "my_misc"
  <2>1. s = <<"misc", "attrs", "pdata", "drvdata">>
    BY <1>1, InitCallsAre
  <2>2. /\ s \in Seq(Calls) /\ Len(s) = 4
        /\ s[1] = "misc" /\ s[2] = "attrs" /\ s[3] = "pdata"
        /\ s[4] = "drvdata"
    BY <2>1 DEF Calls
  <2>3. \A k \in 1..4 : k = 1 \/ k = 2 \/ k = 3 \/ k = 4
    OBVIOUS
  <2> HIDE DEF s
  <2>4. \A c : (\E k \in 1..Len(s) : s[k] = c) <=> c \in {"misc", "attrs", "pdata", "drvdata"}
    BY <2>2, <2>3
  <2>5. Ordered(s, InitOrder)
    BY <2>2, <2>3, OrderFacts DEF Ordered
  <2> QED BY <1>1, <2>2, <2>4, <2>5 DEF s
<1>2. CASE d = "sleepy"
  <2>1. s = <<"region", "cdev", "class", "device">>
    BY <1>2, InitCallsAre
  <2>2. /\ s \in Seq(Calls) /\ Len(s) = 4
        /\ s[1] = "region" /\ s[2] = "cdev" /\ s[3] = "class"
        /\ s[4] = "device"
    BY <2>1 DEF Calls
  <2>3. \A k \in 1..4 : k = 1 \/ k = 2 \/ k = 3 \/ k = 4
    OBVIOUS
  <2> HIDE DEF s
  <2>4. \A c : (\E k \in 1..Len(s) : s[k] = c) <=> c \in {"region", "cdev", "class", "device"}
    BY <2>2, <2>3
  <2>5. Ordered(s, InitOrder)
    BY <2>2, <2>3, OrderFacts DEF Ordered
  <2> QED BY <1>2, <2>2, <2>4, <2>5 DEF s, WithAttrs
<1>3. CASE d = "my_chrdev"
  <2>1. s = <<"region", "cdev", "class", "device", "pdata">>
    BY <1>3, InitCallsAre
  <2>2. /\ s \in Seq(Calls) /\ Len(s) = 5
        /\ s[1] = "region" /\ s[2] = "cdev" /\ s[3] = "class"
        /\ s[4] = "device" /\ s[5] = "pdata"
    BY <2>1 DEF Calls
  <2>3. \A k \in 1..5 : k = 1 \/ k = 2 \/ k = 3 \/ k = 4 \/ k = 5
    OBVIOUS
  <2> HIDE DEF s
  <2>4. \A c : (\E k \in 1..Len(s) : s[k] = c) <=>
            c \in {"region", "cdev", "class", "device", "pdata"}
    BY <2>2, <2>3
  <2>5. Ordered(s, InitOrder)
    BY <2>2, <2>3, OrderFacts DEF Ordered
  <2> QED BY <1>3, <2>2, <2>4, <2>5 DEF s, WithAttrs
<1>4. CASE d \in {"my_create_attr", "my_create_group_attr"}
  <2>1. s = <<"region", "cdev", "class", "device", "attrs", "pdata", "drvdata">>
    BY <1>4, InitCallsAre
  <2>2. /\ s \in Seq(Calls) /\ Len(s) = 7
        /\ s[1] = "region" /\ s[2] = "cdev" /\ s[3] = "class"
        /\ s[4] = "device" /\ s[5] = "attrs" /\ s[6] = "pdata"
        /\ s[7] = "drvdata"
    BY <2>1 DEF Calls
  <2>3. \A k \in 1..7 : k = 1 \/ k = 2 \/ k = 3 \/ k = 4 \/ k = 5 \/ k = 6 \/ k = 7
    OBVIOUS
  <2> HIDE DEF s
  <2>4. \A c : (\E k \in 1..Len(s) : s[k] = c) <=>
            c \in {"region", "cdev", "class", "device", "attrs", "pdata", "drvdata"}
    BY <2>2, <2>3
  <2>5. Ordered(s, InitOrder)
    BY <2>2, <2>3, OrderFacts DEF Ordered
  <2> QED BY <1>4, <2>2, <2>4, <2>5 DEF s, WithAttrs
<1> QED BY <1>1, <1>2, <1>3, <1>4, DriverNames

LEMMA ExitToDo ==
  ASSUME NEW d \in Drivers
  PROVE  LET s == ExitCalls(d) IN
         /\ s \in Seq(Calls) /\ Ordered(s, ExitOrder)
         /\ \A c : (\E k \in 1..Len(s) : s[k] = c) <=>
              \/ d = "my_misc" /\ c = "misc"
              \/ d # "my_misc" /\ c \in {"device", "class", "cdev", "region"}
              \/ d \notin {"my_misc", "sleepy"} /\ c = "pdata"
              \/ d = "my_create_group_attr" /\ c = "attrs"
<1> DEFINE s == ExitCalls(d)
<1>1. CASE d = "my_misc"
  <2>1. s = <<"misc">>
    BY <1>1, ExitCallsAre
  <2>2. /\ s \in Seq(Calls) /\ Len(s) = 1
        /\ s[1] = "misc"
    BY <2>1 DEF Calls
  <2>3. \A k \in 1..1 : k = 1
    OBVIOUS
  <2> HIDE DEF s
  <2>4. \A c : (\E k \in 1..Len(s) : s[k] = c) <=> c \in {"misc"}
    BY <2>2, <2>3
  <2>5. Ordered(s, ExitOrder)
    BY <2>2, <2>3, OrderFacts DEF Ordered
  <2> QED BY <1>1, <2>2, <2>4, <2>5 DEF s
<1>2. CASE d = "sleepy"
  <2>1. s = <<"device", "class", "cdev", "region">>
    BY <1>2, ExitCallsAre
  <2>2. /\ s \in Seq(Calls) /\ Len(s) = 4
        /\ s[1] = "device" /\ s[2] = "class" /\ s[3] = "cdev"
        /\ s[4] = "region"
    BY <2>1 DEF Calls
  <2>3. \A k \in 1..4 : k = 1 \/ k = 2 \/ k = 3 \/ k = 4
    OBVIOUS
  <2> HIDE DEF s
  <2>4. \A c : (\E k \in 1..Len(s) : s[k] = c) <=> c \in {"device", "class", "cdev", "region"}
    BY <2>2, <2>3
  <2>5. Ordered(s, ExitOrder)
    BY <2>2, <2>3, OrderFacts DEF Ordered
  <2> QED BY <1>2, <2>2, <2>4, <2>5 DEF s
<1>3. CASE d \in {"my_chrdev", "my_create_attr"}
  <2>1. s = <<"device", "class", "cdev", "region", "pdata">>
    BY <1>3, ExitCallsAre
  <2>2. /\ s \in Seq(Calls) /\ Len(s) = 5
        /\ s[1] = "device" /\ s[2] = "class" /\ s[3] = "cdev"
        /\ s[4] = "region" /\ s[5] = "pdata"
    BY <2>1 DEF Calls
  <2>3. \A k \in 1..5 : k = 1 \/ k = 2 \/ k = 3 \/ k = 4 \/ k = 5
    OBVIOUS
  <2> HIDE DEF s
  <2>4. \A c : (\E k \in 1..Len(s) : s[k] = c) <=>
            c \in {"device", "class", "cdev", "region", "pdata"}
    BY <2>2, <2>3
  <2>5. Ordered(s, ExitOrder)
    BY <2>2, <2>3, OrderFacts DEF Ordered
  <2> QED BY <1>3, <2>2, <2>4, <2>5 DEF s
<1>4. CASE d = "my_create_group_attr"
  <2>1. s = <<"attrs", "device", "class", "cdev", "region", "pdata">>
    BY <1>4, ExitCallsAre
  <2>2. /\ s \in Seq(Calls) /\ Len(s) = 6
        /\ s[1] = "attrs" /\ s[2] = "device" /\ s[3] = "class"
        /\ s[4] = "cdev" /\ s[5] = "region" /\ s[6] = "pdata"
    BY <2>1 DEF Calls
  <2>3. \A k \in 1..6 : k = 1 \/ k = 2 \/ k = 3 \/ k = 4 \/ k = 5 \/ k = 6
    OBVIOUS
  <2> HIDE DEF s
  <2>4. \A c : (\E k \in 1..Len(s) : s[k] = c) <=>
            c \in {"attrs", "device", "class", "cdev", "region", "pdata"}
    BY <2>2, <2>3
  <2>5. Ordered(s, ExitOrder)
    BY <2>2, <2>3, OrderFacts DEF Ordered
  <2> QED BY <1>4, <2>2, <2>4, <2>5 DEF s
<1> QED BY <1>1, <1>2, <1>3, <1>4, DriverNames

\* The next call leaves those after it.
LEMMA NextCall ==
  ASSUME todo \in [Drivers -> Seq(Calls)], NEW d \in Drivers, NEW name,
         todo[d] # <<>>, Head(todo[d]) = name, todo' = [todo EXCEPT ![d] = Tail(@)]
  PROVE  /\ todo' \in [Drivers -> Seq(Calls)] /\ name \in Calls
         /\ \A e \in Drivers \ {d} : todo'[e] = todo[e]
         /\ To(d, name)
         /\ \A c : To(d, c)' => To(d, c)
         /\ \A c : c # name /\ To(d, c) => To(d, c)'
         /\ \A order \in [Calls -> 1..7] : Ordered(todo[d], order) =>
              /\ Ordered(todo[d], order)' /\ ~To(d, name)'
              /\ \A c \in Calls : To(d, c) /\ c # name => order[name] < order[c]
<1> DEFINE s == todo[d]
           n == Len(s)
           r == Tail(s)
<1>1. /\ s \in Seq(Calls) /\ n \in Nat /\ n >= 1 /\ s[1] = name
      /\ r \in Seq(Calls) /\ Len(r) = n - 1 /\ \A k \in 1..n - 1 : r[k] = s[k + 1]
      /\ name \in Calls
  OBVIOUS
<1>2. /\ todo'[d] = r /\ \A e \in Drivers \ {d} : todo'[e] = todo[e]
      /\ todo' \in [Drivers -> Seq(Calls)]
  BY <1>1
<1> HIDE DEF r
<1>3. To(d, name) /\ \A c : To(d, c)' => To(d, c)
  <2>1. 1 \in 1..n /\ \A k \in 1..n - 1 : k + 1 \in 1..n
    BY <1>1
  <2> QED BY <1>1, <1>2, <2>1 DEF To
<1>4. ASSUME NEW c, c # name, To(d, c) PROVE To(d, c)'
  <2>1. PICK k \in 1..n : s[k] = c
    BY <1>4 DEF To
  <2>2. k # 1 /\ k - 1 \in 1..n - 1 /\ (k - 1) + 1 = k
    BY <1>1, <1>4, <2>1
  <2>3. r[k - 1] = c
    BY <1>1, <2>1, <2>2
  <2> QED BY <1>1, <1>2, <2>2, <2>3 DEF To
<1>5. ASSUME NEW order \in [Calls -> 1..7], Ordered(s, order)
      PROVE  /\ Ordered(r, order) /\ ~To(d, name)'
             /\ \A c \in Calls : To(d, c) /\ c # name => order[name] < order[c]
  <2>1. \A k \in 1..n : k # 1 => order[name] < order[s[k]]
    BY <1>1, <1>5 DEF Ordered
  <2>2. \A k \in 1..n - 1 : k + 1 \in 1..n /\ k + 1 # 1
    BY <1>1
  <2>3. Ordered(r, order)
    <3> SUFFICES ASSUME NEW j \in 1..n - 1, NEW k \in 1..n - 1, j < k
                 PROVE  order[r[j]] < order[r[k]]
      BY <1>1 DEF Ordered
    <3>1. j + 1 \in 1..n /\ k + 1 \in 1..n /\ j + 1 < k + 1
      BY <1>1
    <3>2. order[s[j + 1]] < order[s[k + 1]]
      BY <1>5, <3>1 DEF Ordered
    <3> QED BY <1>1, <3>2
  <2>4. order[name] \in 1..7
    BY <1>1
  <2>5. ~To(d, name)'
    BY <1>1, <1>2, <2>1, <2>2, <2>4 DEF To
  <2>6. \A c \in Calls : To(d, c) /\ c # name => order[name] < order[c]
    BY <1>1, <2>1 DEF To
  <2> QED BY <2>3, <2>5, <2>6
<1> QED BY <1>1, <1>2, <1>3, <1>4, <1>5

\* A call of init, or of exit, takes that call off the list and no other.
LEMMA CallInit ==
  ASSUME LoaderOK, OrderInv, NEW d \in Drivers, NEW name, Call(d, "init", name),
         mod' = mod \/ mod' = [mod EXCEPT ![d] = "dead"]
  PROVE  /\ todo' \in [Drivers -> Seq(Calls)] /\ name \in Calls /\ To(d, name)
         /\ \A e \in Drivers \ {d} : todo'[e] = todo[e]
         /\ \A e \in Drivers : \A c : To(e, c)' <=> To(e, c) /\ (e # d \/ c # name)
         /\ \A c \in Calls : To(d, c) /\ c # name => InitOrder[name] < InitOrder[c]
         /\ OrderInv'
<1>1. /\ mod[d] = "init" /\ todo[d] # <<>> /\ Head(todo[d]) = name
      /\ todo' = [todo EXCEPT ![d] = Tail(@)] /\ todo \in [Drivers -> Seq(Calls)]
      /\ Ordered(todo[d], InitOrder)
  BY DEF Call, LoaderOK, OrderInv
<1>2. /\ todo' \in [Drivers -> Seq(Calls)] /\ name \in Calls
      /\ \A e \in Drivers \ {d} : todo'[e] = todo[e]
      /\ To(d, name) /\ ~To(d, name)'
      /\ \A c : To(d, c)' => To(d, c)
      /\ \A c : c # name /\ To(d, c) => To(d, c)'
      /\ Ordered(todo[d], InitOrder)'
      /\ \A c \in Calls : To(d, c) /\ c # name => InitOrder[name] < InitOrder[c]
  BY <1>1, NextCall, OrderFacts
<1>3. \A e \in Drivers \ {d} : \A c : To(e, c)' <=> To(e, c)
  BY <1>2 DEF To
<1>4. \A e \in Drivers \ {d} : mod'[e] = mod[e]
  BY DEF LoaderOK
<1>5. mod'[d] \in {"init", "dead"}
  BY <1>1 DEF LoaderOK
<1>6. OrderInv'
  BY <1>1, <1>2, <1>3, <1>4, <1>5 DEF OrderInv, Ordered
<1> QED BY <1>2, <1>3, <1>6

LEMMA CallExit ==
  ASSUME LoaderOK, OrderInv, NEW d \in Drivers, NEW name, Call(d, "exit", name),
         mod' = mod \/ mod' = [mod EXCEPT ![d] = "dead"]
  PROVE  /\ todo' \in [Drivers -> Seq(Calls)] /\ name \in Calls /\ To(d, name)
         /\ \A e \in Drivers \ {d} : todo'[e] = todo[e]
         /\ \A e \in Drivers : \A c : To(e, c)' <=> To(e, c) /\ (e # d \/ c # name)
         /\ \A c \in Calls : To(d, c) /\ c # name => ExitOrder[name] < ExitOrder[c]
         /\ OrderInv'
<1>1. /\ mod[d] = "exit" /\ todo[d] # <<>> /\ Head(todo[d]) = name
      /\ todo' = [todo EXCEPT ![d] = Tail(@)] /\ todo \in [Drivers -> Seq(Calls)]
      /\ Ordered(todo[d], ExitOrder)
  BY DEF Call, LoaderOK, OrderInv
<1>2. /\ todo' \in [Drivers -> Seq(Calls)] /\ name \in Calls
      /\ \A e \in Drivers \ {d} : todo'[e] = todo[e]
      /\ To(d, name) /\ ~To(d, name)'
      /\ \A c : To(d, c)' => To(d, c)
      /\ \A c : c # name /\ To(d, c) => To(d, c)'
      /\ Ordered(todo[d], ExitOrder)'
      /\ \A c \in Calls : To(d, c) /\ c # name => ExitOrder[name] < ExitOrder[c]
  BY <1>1, NextCall, OrderFacts
<1>3. \A e \in Drivers \ {d} : \A c : To(e, c)' <=> To(e, c)
  BY <1>2 DEF To
<1>4. \A e \in Drivers \ {d} : mod'[e] = mod[e]
  BY DEF LoaderOK
<1>5. mod'[d] \in {"exit", "dead"}
  BY <1>1 DEF LoaderOK
<1>6. OrderInv'
  BY <1>1, <1>2, <1>3, <1>4, <1>5 DEF OrderInv, Ordered
<1> QED BY <1>2, <1>3, <1>6

-----------------------------------------------------------------------------
(* The registries: the calls of init, of exit, and what else there is *)

\* A call of init returns NULL or an ERR_PTR: no pointer to a class or device.
LEMMA ErrorFacts ==
  ASSUME LoaderOK, NEW d \in Drivers, GetsError(d)
  PROVE  /\ ptr' \in [Drivers -> SUBSET {"my_class", "dev", "error"}]
         /\ \A e \in Drivers \ {d} : ptr'[e] = ptr[e]
         /\ ptr'[d] = ptr[d] \cup {"error"}
         /\ \A e \in Drivers : "dev" \in ptr'[e] <=> "dev" \in ptr[e]
         /\ \A e \in Drivers : "my_class" \in ptr'[e] <=> "my_class" \in ptr[e]
<1>1. ptr \in [Drivers -> SUBSET {"my_class", "dev", "error"}]
  BY DEF LoaderOK
<1>2. ptr' = [ptr EXCEPT ![d] = ptr[d] \cup {"error"}]
  BY DEF GetsError
<1>3. /\ ptr'[d] = ptr[d] \cup {"error"} /\ \A e \in Drivers \ {d} : ptr'[e] = ptr[e]
      /\ ptr' \in [Drivers -> SUBSET {"my_class", "dev", "error"}]
  BY <1>1, <1>2
<1> QED BY <1>3

\* A module that follows such a pointer is dead; it stays in memory with all it has.
LEMMA CrashStep ==
  ASSUME RegistryInv, NEW d \in Drivers, mod[d] # "unloaded", Crashes(d),
         todo' \in [Drivers -> Seq(Calls)], \A e \in Drivers \ {d} : todo'[e] = todo[e],
         OrderInv',
         ptr' \in [Drivers -> SUBSET {"my_class", "dev", "error"}],
         \A e \in Drivers : "dev" \in ptr'[e] <=> "dev" \in ptr[e],
         UNCHANGED <<failed, pdata, kernelVars, userVars>>
  PROVE  RegistryInv'
<1> USE DEF RegistryInv
<1>1. /\ mod' \in [Drivers -> {"unloaded", "init", "live", "exit", "dead"}]
      /\ mod'[d] = "dead" /\ \A e \in Drivers \ {d} : mod'[e] = mod[e]
      /\ \A e \in Drivers \ {d} : \A c : To(e, c)' <=> To(e, c)
  BY DEF LoaderOK, Crashes, To
<1>2. LoaderOK'
  BY <1>1 DEF LoaderOK
<1>3. KernelOK' /\ UsersOK'
  BY DEF KernelOK, UsersOK, Owner, kernelVars, userVars, attrVars
<1>4. AttrInv' /\ DeviceInv'
  BY <1>1 DEF AttrInv, AttrDrivers, DeviceInv, kernelVars
<1>5. HandlerInv'
  BY <1>1 DEF HandlerInv, userVars, attrVars, UsersOK, Owner
<1>6. FilesPinned'
  BY <1>1 DEF FilesPinned, userVars, attrVars, UsersOK, Owner, kernelVars
<1> QED BY <1>2, <1>3, <1>4, <1>5, <1>6

LEMMA RegionStep ==
  ASSUME RegistryInv, NEW d \in Drivers, register_chrdev_region(d)
  PROVE  RegistryInv'
<1> USE DEF RegistryInv
<1>1. Call(d, "init", "region") /\ mod' = mod /\ mod[d] = "init"
  BY DEF register_chrdev_region, Call
<1>2. /\ todo' \in [Drivers -> Seq(Calls)] /\ To(d, "region")
      /\ \A e \in Drivers \ {d} : todo'[e] = todo[e]
      /\ \A e \in Drivers : \A c : To(e, c)' <=> To(e, c) /\ (e # d \/ c # "region")
      /\ OrderInv'
  BY <1>1, CallInit
<1>3. todo[d] # <<>>
  BY <1>1 DEF Call
<1>4. d # "my_misc"
  BY <1>2 DEF OrderInv
<1>5. LoaderOK'
  BY <1>1, <1>2 DEF register_chrdev_region, LoaderOK
<1>6. KernelOK' /\ UsersOK'
  BY <1>1, <1>2 DEF register_chrdev_region, KernelOK, UsersOK, Owner, userVars, attrVars
<1>7. AttrInv'
  BY <1>1, <1>2, <1>3, <1>4 DEF register_chrdev_region, AttrInv, AttrDrivers
<1>8. DeviceInv'
  BY <1>1, <1>2 DEF register_chrdev_region, DeviceInv
<1>9. HandlerInv'
  BY <1>1, <1>2, <1>3 DEF register_chrdev_region, HandlerInv, userVars, attrVars, UsersOK, Owner
<1>10. FilesPinned'
  BY <1>1, <1>2, <1>3 DEF register_chrdev_region, FilesPinned, userVars, attrVars, UsersOK
<1> QED BY <1>2, <1>5, <1>6, <1>7, <1>8, <1>9, <1>10

\* A list without calls is empty.
LEMMA NoneLeft ==
  ASSUME NEW s \in Seq(Calls), \A c \in Calls : ~\E k \in 1..Len(s) : s[k] = c
  PROVE  s = <<>>
<1>1. CASE Len(s) = 0
  BY <1>1
<1>2. CASE Len(s) # 0
  <2>1. 1 \in 1..Len(s) /\ s[1] \in Calls
    BY <1>2
  <2> QED BY <2>1
<1> QED BY <1>1, <1>2

LEMMA CdevStep ==
  ASSUME RegistryInv, NEW d \in Drivers, cdev_add(d)
  PROVE  RegistryInv'
<1> USE DEF RegistryInv
<1>1. /\ Call(d, "init", "cdev") /\ mod[d] = "init"
      /\ mod' = mod \/ mod' = [mod EXCEPT ![d] = "dead"]
  BY DEF cdev_add, Call, Crashes
<1>2. /\ todo' \in [Drivers -> Seq(Calls)] /\ To(d, "cdev")
      /\ \A e \in Drivers \ {d} : todo'[e] = todo[e]
      /\ \A e \in Drivers : \A c : To(e, c)' <=> To(e, c) /\ (e # d \/ c # "cdev")
      /\ \A c \in Calls : To(d, c) /\ c # "cdev" => InitOrder["cdev"] < InitOrder[c]
      /\ OrderInv'
  BY <1>1, CallInit
<1>3. todo[d] # <<>>
  BY <1>1 DEF Call
<1>4. CASE GetsError(d) /\ Crashes(d) /\ UNCHANGED cdevs
  <2>1. UNCHANGED <<failed, pdata, kernelVars, userVars>>
    BY <1>4 DEF cdev_add, kernelVars
  <2> QED BY <1>1, <1>2, <1>4, <2>1, ErrorFacts, CrashStep
<1>5. CASE cdevs' = <<d>> \o cdevs /\ UNCHANGED <<mod, ptr>>
  <2> USE <1>5
  <2>1. LoaderOK'
    BY <1>1, <1>2 DEF cdev_add, LoaderOK
  <2>2. KernelOK' /\ UsersOK'
    BY <1>1, <1>2 DEF cdev_add, KernelOK, UsersOK, Owner, userVars, kernelVars, attrVars,
      AttrDrivers
  <2>3. AttrInv'
    BY <1>1, <1>2, <1>3 DEF cdev_add, AttrInv, AttrDrivers, kernelVars
  <2>4. DeviceInv'
    BY <1>1, <1>2 DEF cdev_add, DeviceInv, kernelVars
  <2>5. HandlerInv'
    BY <1>1, <1>2, <1>3 DEF cdev_add, HandlerInv, userVars, attrVars, UsersOK, Owner
  <2>6. FilesPinned'
    BY <1>1, <1>2, <1>3 DEF cdev_add, FilesPinned, userVars, kernelVars, attrVars, UsersOK
  <2> QED BY <1>2, <2>1, <2>2, <2>3, <2>4, <2>5, <2>6
<1> QED BY <1>4, <1>5 DEF cdev_add

LEMMA ClassStep ==
  ASSUME RegistryInv, NEW d \in Drivers, class_create(d)
  PROVE  RegistryInv'
<1> USE DEF RegistryInv
<1>1. Call(d, "init", "class") /\ mod' = mod /\ mod[d] = "init"
  BY DEF class_create, Call
<1>2. /\ todo' \in [Drivers -> Seq(Calls)] /\ To(d, "class")
      /\ \A e \in Drivers \ {d} : todo'[e] = todo[e]
      /\ \A e \in Drivers : \A c : To(e, c)' <=> To(e, c) /\ (e # d \/ c # "class")
      /\ \A c \in Calls : To(d, c) /\ c # "class" => InitOrder["class"] < InitOrder[c]
      /\ OrderInv'
  BY <1>1, CallInit
<1>3. todo[d] # <<>>
  BY <1>1 DEF Call
<1>4. /\ ptr' \in [Drivers -> SUBSET {"my_class", "dev", "error"}]
      /\ \A e \in Drivers : "dev" \in ptr'[e] <=> "dev" \in ptr[e]
  <2>1. CASE ptr' = [ptr EXCEPT ![d] = ptr[d] \cup {"my_class"}]
    <3>1. ptr \in [Drivers -> SUBSET {"my_class", "dev", "error"}]
            /\ ptr[d] \cup {"my_class"} \in SUBSET {"my_class", "dev", "error"}
      BY DEF LoaderOK
    <3> QED BY <2>1, <3>1
  <2>2. CASE GetsError(d)
    BY <2>2, ErrorFacts
  <2> QED BY <2>1, <2>2 DEF class_create
<1>5. LoaderOK'
  BY <1>1, <1>2, <1>4 DEF class_create, LoaderOK
<1>6. KernelOK' /\ UsersOK'
  BY <1>1, <1>2, <1>4 DEF class_create, KernelOK, UsersOK, Owner, userVars, kernelVars,
    attrVars, AttrDrivers
<1>7. AttrInv'
  BY <1>1, <1>2, <1>3, <1>4 DEF class_create, AttrInv, AttrDrivers, kernelVars
<1>8. DeviceInv'
  BY <1>1, <1>2, <1>4 DEF class_create, DeviceInv, kernelVars
<1>9. HandlerInv'
  BY <1>1, <1>2, <1>3, <1>4 DEF class_create, HandlerInv, userVars, attrVars, UsersOK, Owner
<1>10. FilesPinned'
  BY <1>1, <1>2, <1>3, <1>4 DEF class_create, FilesPinned, userVars, kernelVars, attrVars,
    UsersOK
<1> QED BY <1>2, <1>5, <1>6, <1>7, <1>8, <1>9, <1>10

LEMMA DeviceStep ==
  ASSUME RegistryInv, NEW d \in Drivers, device_create(d)
  PROVE  RegistryInv'
<1> USE DEF RegistryInv
<1>1. Call(d, "init", "device") /\ mod' = mod /\ mod[d] = "init"
  BY DEF device_create, Call
<1>2. /\ todo' \in [Drivers -> Seq(Calls)] /\ To(d, "device")
      /\ \A e \in Drivers \ {d} : todo'[e] = todo[e]
      /\ \A e \in Drivers : \A c : To(e, c)' <=> To(e, c) /\ (e # d \/ c # "device")
      /\ \A c \in Calls : To(d, c) /\ c # "device" => InitOrder["device"] < InitOrder[c]
      /\ OrderInv'
  BY <1>1, CallInit
<1>3. todo[d] # <<>>
  BY <1>1 DEF Call
<1>4. /\ ptr' \in [Drivers -> SUBSET {"my_class", "dev", "error"}]
           /\ \A e \in Drivers \ {d} : ptr'[e] = ptr[e]
      /\ \/ node = NoOne /\ node' = d
         \/ node' = node /\ ("dev" \in ptr'[d] <=> "dev" \in ptr[d])
      /\ \A e \in Drivers : "dev" \in ptr[e] => "dev" \in ptr'[e]
      /\ NoOne \notin Drivers /\ d # "my_misc"
  <2>1. ptr \in [Drivers -> SUBSET {"my_class", "dev", "error"}]
          /\ ptr[d] \cup {"dev"} \in SUBSET {"my_class", "dev", "error"}
    BY DEF LoaderOK
  <2>2. \/ node = NoOne /\ node' = d /\ ptr' = [ptr EXCEPT ![d] = ptr[d] \cup {"dev"}]
        \/ node' = node /\ GetsError(d)
    BY DEF device_create
  <2>3. /\ ptr' \in [Drivers -> SUBSET {"my_class", "dev", "error"}]
        /\ \A e \in Drivers \ {d} : ptr'[e] = ptr[e]
        /\ \A e \in Drivers : "dev" \in ptr[e] => "dev" \in ptr'[e]
        /\ GetsError(d) => ("dev" \in ptr'[d] <=> "dev" \in ptr[d])
    BY <2>1, <2>2, ErrorFacts
  <2>4. d # "my_misc"
    BY <1>2 DEF OrderInv
  <2>5. NoOne \notin Drivers
    BY DriversAssumption
  <2> QED BY <2>2, <2>3, <2>4, <2>5
<1>5. LoaderOK'
  BY <1>1, <1>2, <1>4 DEF device_create, LoaderOK
<1>6. KernelOK' /\ UsersOK'
  BY <1>1, <1>2, <1>4 DEF device_create, KernelOK, UsersOK, Owner, userVars, kernelVars,
    attrVars, AttrDrivers
<1>7. AttrInv'
  BY <1>1, <1>2, <1>3, <1>4 DEF device_create, AttrInv, AttrDrivers, kernelVars
<1>8. DeviceInv'
  BY <1>1, <1>2, <1>4 DEF device_create, DeviceInv, kernelVars
<1>9. HandlerInv'
  BY <1>1, <1>2, <1>3, <1>4 DEF device_create, HandlerInv, userVars, attrVars, UsersOK, Owner
<1>10. FilesPinned'
  BY <1>1, <1>2, <1>3, <1>4 DEF device_create, FilesPinned, userVars, kernelVars, attrVars,
    UsersOK
<1> QED BY <1>2, <1>5, <1>6, <1>7, <1>8, <1>9, <1>10

LEMMA PdataStep ==
  ASSUME RegistryInv, NEW d \in Drivers, kzalloc_pdata(d)
  PROVE  RegistryInv'
<1> USE DEF RegistryInv
<1>1. Call(d, "init", "pdata") /\ mod' = mod /\ mod[d] = "init"
  BY DEF kzalloc_pdata, Call
<1>2. /\ todo' \in [Drivers -> Seq(Calls)] /\ To(d, "pdata")
      /\ \A e \in Drivers \ {d} : todo'[e] = todo[e]
      /\ \A e \in Drivers : \A c : To(e, c)' <=> To(e, c) /\ (e # d \/ c # "pdata")
      /\ \A c \in Calls : To(d, c) /\ c # "pdata" => InitOrder["pdata"] < InitOrder[c]
      /\ OrderInv'
  BY <1>1, CallInit
<1>3. todo[d] # <<>>
  BY <1>1 DEF Call
<1>4. d # "sleepy"
  BY <1>2 DEF OrderInv
<1>5. LoaderOK'
  BY <1>1, <1>2, <1>4 DEF kzalloc_pdata, LoaderOK
<1>6. KernelOK' /\ UsersOK'
  BY <1>1, <1>2, <1>4 DEF kzalloc_pdata, KernelOK, UsersOK, Owner, userVars, kernelVars,
    attrVars, AttrDrivers
<1>7. AttrInv'
  BY <1>1, <1>2, <1>3, <1>4 DEF kzalloc_pdata, AttrInv, AttrDrivers, kernelVars
<1>8. DeviceInv'
  BY <1>1, <1>2, <1>4 DEF kzalloc_pdata, DeviceInv, kernelVars
<1>9. HandlerInv'
  BY <1>1, <1>2, <1>3, <1>4 DEF kzalloc_pdata, HandlerInv, userVars, attrVars, UsersOK, Owner
<1>10. FilesPinned'
  BY <1>1, <1>2, <1>3, <1>4 DEF kzalloc_pdata, FilesPinned, userVars, kernelVars, attrVars,
    UsersOK
<1> QED BY <1>2, <1>5, <1>6, <1>7, <1>8, <1>9, <1>10

LEMMA PdataFailsStep ==
  ASSUME RegistryInv, NEW d \in Drivers, kzalloc_pdata_fails(d)
  PROVE  RegistryInv'
<1>1. /\ Call(d, "init", "pdata") /\ mod[d] = "init" /\ GetsError(d) /\ Crashes(d)
      /\ mod' = [mod EXCEPT ![d] = "dead"]
      /\ UNCHANGED <<failed, pdata, kernelVars, userVars>>
  BY DEF kzalloc_pdata_fails, Call, Crashes
<1>2. /\ todo' \in [Drivers -> Seq(Calls)] /\ OrderInv'
      /\ \A e \in Drivers \ {d} : todo'[e] = todo[e]
  BY <1>1, CallInit DEF RegistryInv
<1> QED BY <1>1, <1>2, ErrorFacts, CrashStep DEF RegistryInv

LEMMA DrvdataStep ==
  ASSUME RegistryInv, NEW d \in Drivers, dev_set_drvdata(d)
  PROVE  RegistryInv'
<1> USE DEF RegistryInv
<1>1. Call(d, "init", "drvdata") /\ mod' = mod /\ mod[d] = "init"
  BY DEF dev_set_drvdata, Call
<1>2. /\ todo' \in [Drivers -> Seq(Calls)] /\ To(d, "drvdata")
      /\ \A e \in Drivers \ {d} : todo'[e] = todo[e]
      /\ \A e \in Drivers : \A c : To(e, c)' <=> To(e, c) /\ (e # d \/ c # "drvdata")
      /\ \A c \in Calls : To(d, c) /\ c # "drvdata" => InitOrder["drvdata"] < InitOrder[c]
      /\ OrderInv'
  BY <1>1, CallInit
<1>3. todo[d] # <<>>
  BY <1>1 DEF Call
<1>4. /\ d \in WithAttrs /\ d \in pdata /\ todo'[d] = <<>>
      /\ d # "my_misc" => node = d
  <2>1. d \in WithAttrs
    BY <1>1, <1>2 DEF OrderInv
  <2>2. ASSUME NEW c \in Calls, To(d, c)' PROVE FALSE
    <3>1. To(d, c) /\ c # "drvdata"
      BY <1>2, <2>2
    <3>2. InitOrder["drvdata"] < InitOrder[c]
      BY <1>2, <3>1
    <3> QED BY <3>2, OrderFacts
  <2>3. todo'[d] = <<>>
    BY <1>2, <2>2, NoneLeft DEF To
  <2>4. ~To(d, "attrs") /\ ~To(d, "pdata")
    BY <1>2, <2>2 DEF Calls
  <2> QED BY <1>1, <1>2, <2>1, <2>3, <2>4 DEF AttrInv, DeviceInv, AttrDrivers
<1>5. LoaderOK'
  BY <1>1, <1>2, <1>4 DEF dev_set_drvdata, LoaderOK
<1>6. KernelOK' /\ UsersOK'
  BY <1>1, <1>2, <1>4 DEF dev_set_drvdata, KernelOK, UsersOK, Owner, userVars, kernelVars,
    attrVars, AttrDrivers
<1>7. AttrInv'
  BY <1>1, <1>2, <1>3, <1>4 DEF dev_set_drvdata, AttrInv, AttrDrivers, kernelVars
<1>8. DeviceInv'
  BY <1>1, <1>2, <1>4 DEF dev_set_drvdata, DeviceInv, kernelVars
<1>9. HandlerInv'
  BY <1>1, <1>2, <1>3, <1>4 DEF dev_set_drvdata, HandlerInv, userVars, attrVars, UsersOK, Owner
<1>10. FilesPinned'
  BY <1>1, <1>2, <1>3, <1>4 DEF dev_set_drvdata, FilesPinned, userVars, kernelVars, attrVars,
    UsersOK
<1> QED BY <1>2, <1>5, <1>6, <1>7, <1>8, <1>9, <1>10

LEMMA AttrsStep ==
  ASSUME RegistryInv, NEW d \in Drivers, create_attrs(d)
  PROVE  RegistryInv'
<1> USE DEF RegistryInv
<1>1. Call(d, "init", "attrs") /\ (mod' = mod \/ mod' = [mod EXCEPT ![d] = "dead"])
        /\ mod[d] = "init"
  BY DEF create_attrs, Call, Crashes
<1>2. /\ todo' \in [Drivers -> Seq(Calls)] /\ To(d, "attrs")
      /\ \A e \in Drivers \ {d} : todo'[e] = todo[e]
      /\ \A e \in Drivers : \A c : To(e, c)' <=> To(e, c) /\ (e # d \/ c # "attrs")
      /\ \A c \in Calls : To(d, c) /\ c # "attrs" => InitOrder["attrs"] < InitOrder[c]
      /\ OrderInv'
  BY <1>1, CallInit
<1>3. todo[d] # <<>>
  BY <1>1 DEF Call
<1>4. /\ mod' \in [Drivers -> {"unloaded", "init", "live", "exit", "dead"}]
      /\ mod'[d] \in {"init", "dead"} /\ \A e \in Drivers \ {d} : mod'[e] = mod[e]
      /\ mod'[d] = "init" => "dev" \in ptr[d] \/ d = "my_misc"
      /\ \/ attrs' = attrs \cup {d} /\ failed' = failed \ {d} /\ mod'[d] = "init"
         \/ attrs' = attrs /\ failed' = failed /\ mod'[d] = "dead"
      /\ d \in WithAttrs /\ ~To(d, "region") /\ ~To(d, "misc")
      /\ UNCHANGED <<ptr, pdata, region, cdevs, class, node, misc, drvdata, userVars>>
  <2>1. d \in WithAttrs
    BY <1>1, <1>2 DEF OrderInv
  <2>2. ~To(d, "region") /\ ~To(d, "misc")
    BY <1>2, OrderFacts DEF Calls
  <2>3. mod \in [Drivers -> {"unloaded", "init", "live", "exit", "dead"}]
    BY DEF LoaderOK
  <2>4. d \in misc => d = "my_misc"
    BY DEF KernelOK
  <2>5. CASE "dev" \in ptr[d] \/ d \in misc
    BY <1>1, <2>1, <2>2, <2>3, <2>4, <2>5 DEF create_attrs, HasDev
  <2>6. CASE ~("dev" \in ptr[d] \/ d \in misc)
    BY <1>1, <2>1, <2>2, <2>3, <2>6 DEF create_attrs, HasDev, Crashes
  <2> QED BY <2>5, <2>6
<1>5. LoaderOK'
  <2>1. \A e \in Drivers : mod'[e] \in {"unloaded", "live"} => todo'[e] = <<>>
    BY <1>2, <1>4 DEF LoaderOK
  <2>2. OneAtATime => \A e, f \in Drivers :
          mod'[e] # "unloaded" /\ mod'[f] # "unloaded" => e = f
    BY <1>1, <1>4 DEF LoaderOK, Call
  <2> QED BY <1>1, <1>2, <1>4, <2>1, <2>2 DEF LoaderOK
<1>6. KernelOK' /\ UsersOK'
  BY <1>1, <1>2, <1>4 DEF create_attrs, KernelOK, UsersOK, Owner, userVars, kernelVars,
    attrVars, AttrDrivers
<1>7. AttrInv'
  BY <1>1, <1>2, <1>3, <1>4 DEF create_attrs, AttrInv, AttrDrivers, kernelVars
<1>8. DeviceInv'
  BY <1>1, <1>2, <1>4 DEF create_attrs, DeviceInv, kernelVars
<1>9. HandlerInv'
  BY <1>1, <1>2, <1>3, <1>4 DEF create_attrs, HandlerInv, userVars, attrVars, UsersOK, Owner
<1>10. FilesPinned'
  BY <1>1, <1>2, <1>4 DEF FilesPinned, userVars, attrVars, UsersOK, Owner
<1> QED BY <1>2, <1>5, <1>6, <1>7, <1>8, <1>9, <1>10

\* An init that gives up makes no more calls.
LEMMA NoneAfterGiveUp ==
  ASSUME LoaderOK, OrderInv, NEW d \in Drivers, mod' = mod, todo' = [todo EXCEPT ![d] = <<>>]
  PROVE  /\ todo' \in [Drivers -> Seq(Calls)] /\ todo'[d] = <<>>
         /\ \A e \in Drivers \ {d} : todo'[e] = todo[e]
         /\ \A e \in Drivers : \A c : To(e, c)' <=> To(e, c) /\ e # d
         /\ OrderInv'
<1>1. /\ todo \in [Drivers -> Seq(Calls)] /\ <<>> \in Seq(Calls) /\ Len(<<>>) = 0
  BY DEF LoaderOK
<1>2. /\ todo' \in [Drivers -> Seq(Calls)] /\ todo'[d] = <<>>
      /\ \A e \in Drivers \ {d} : todo'[e] = todo[e]
  BY <1>1
<1>3. \A c : ~To(d, c)'
  BY <1>1, <1>2 DEF To
<1>4. \A e \in Drivers \ {d} : \A c : To(e, c)' <=> To(e, c)
  BY <1>2 DEF To
<1>5. OrderInv'
  BY <1>1, <1>2, <1>3, <1>4 DEF OrderInv, Ordered
<1> QED BY <1>2, <1>3, <1>4, <1>5

LEMMA MiscStep ==
  ASSUME RegistryInv, NEW d \in Drivers, misc_register(d)
  PROVE  RegistryInv'
<1> USE DEF RegistryInv
<1>1. /\ mod[d] = "init" /\ mod' = mod /\ todo[d] # <<>> /\ Head(todo[d]) = "misc"
      /\ UNCHANGED <<ptr, pdata, region, cdevs, class, node, attrs, drvdata, userVars>>
  BY DEF misc_register
<1>2. /\ todo' \in [Drivers -> Seq(Calls)]
      /\ \A e \in Drivers \ {d} : todo'[e] = todo[e]
      /\ \A e \in Drivers \ {d} : \A c : To(e, c)' <=> To(e, c)
      /\ \A c : To(d, c)' => To(d, c)
      /\ OrderInv' /\ To(d, "misc")
      /\ \/ misc' = misc \cup {d} /\ failed' = failed
            /\ \A c : c # "misc" => (To(d, c)' <=> To(d, c))
         \/ misc' = misc /\ failed' = failed \cup {d} /\ todo'[d] = <<>> /\ \A c : ~To(d, c)'
  <2>0. todo \in [Drivers -> Seq(Calls)]
    BY DEF LoaderOK
  <2>1. To(d, "misc")
    <3>1. Len(todo[d]) >= 1 /\ todo[d][1] = "misc"
      BY <1>1, <2>0
    <3> QED BY <2>0, <3>1 DEF To
  <2>2. CASE todo' = [todo EXCEPT ![d] = Tail(@)] /\ misc' = misc \cup {d} /\ failed' = failed
    <3>1. Call(d, "init", "misc")
      BY <1>1, <2>2 DEF Call
    <3> QED BY <1>1, <2>2, <3>1, CallInit
  <2>3. CASE GiveUp(d) /\ misc' = misc
    <3>1. todo' = [todo EXCEPT ![d] = <<>>] /\ failed' = failed \cup {d}
      BY <2>3 DEF GiveUp
    <3> QED BY <1>1, <2>1, <2>3, <3>1, NoneAfterGiveUp
  <2> QED BY <2>2, <2>3 DEF misc_register
<1>3. d = "my_misc" /\ d \notin attrs /\ d \notin failed /\ d \notin drvdata
  BY <1>1, <1>2 DEF OrderInv, AttrInv, AttrDrivers, KernelOK, WithAttrs
<1>4. \A p \in Proc : dev[p] # d
  BY <1>1, DriversAssumption DEF HandlerInv, UsersOK, Owner, LoaderOK
<1>5. LoaderOK'
  BY <1>1, <1>2 DEF LoaderOK
<1>6. KernelOK' /\ UsersOK'
  BY <1>1, <1>2, <1>3 DEF KernelOK, UsersOK, Owner, userVars, attrVars, AttrDrivers
<1>7. AttrInv'
  BY <1>1, <1>2, <1>3 DEF AttrInv, AttrDrivers
<1>8. DeviceInv'
  BY <1>1, <1>2 DEF DeviceInv
<1>9. HandlerInv'
  BY <1>1, <1>2, <1>4 DEF HandlerInv, userVars, attrVars, UsersOK, Owner
<1>10. FilesPinned'
  BY <1>1, <1>2 DEF FilesPinned, userVars, attrVars, UsersOK
<1> QED BY <1>2, <1>5, <1>6, <1>7, <1>8, <1>9, <1>10

LEMMA AttrsFailStep ==
  ASSUME RegistryInv, NEW d \in Drivers, create_attrs_fails(d)
  PROVE  RegistryInv'
<1> USE DEF RegistryInv
<1>1. /\ mod[d] = "init" /\ mod' = mod /\ todo[d] # <<>> /\ Head(todo[d]) = "attrs"
      /\ "dev" \in ptr[d] \/ d = "my_misc"
      /\ failed' = failed \cup {d} /\ UNCHANGED <<ptr, pdata, kernelVars, userVars>>
  BY DEF create_attrs_fails, GiveUp, HasDev, KernelOK
<1>2. /\ todo' \in [Drivers -> Seq(Calls)]
      /\ \A e \in Drivers \ {d} : todo'[e] = todo[e]
      /\ \A e \in Drivers \ {d} : \A c : To(e, c)' <=> To(e, c)
      /\ \A c : To(d, c)' => To(d, c)
      /\ OrderInv' /\ To(d, "attrs")
      /\ \/ d # "my_misc" /\ \A c : c # "attrs" => (To(d, c)' <=> To(d, c))
         \/ d = "my_misc" /\ todo'[d] = <<>> /\ \A c : ~To(d, c)'
  <2>0. todo \in [Drivers -> Seq(Calls)]
    BY DEF LoaderOK
  <2>1. To(d, "attrs")
    <3>1. Len(todo[d]) >= 1 /\ todo[d][1] = "attrs"
      BY <1>1, <2>0
    <3> QED BY <2>0, <3>1 DEF To
  <2>2. CASE d # "my_misc" /\ todo' = [todo EXCEPT ![d] = Tail(@)]
    <3>1. Call(d, "init", "attrs")
      BY <1>1, <2>2 DEF Call
    <3> QED BY <1>1, <2>2, <3>1, CallInit
  <2>3. CASE d = "my_misc" /\ todo' = [todo EXCEPT ![d] = <<>>]
    BY <1>1, <2>1, <2>3, NoneAfterGiveUp
  <2> QED BY <2>2, <2>3 DEF create_attrs_fails, GiveUp
<1>3. d \notin attrs /\ (d = "my_misc" => d \notin drvdata)
  BY <1>1, <1>2 DEF AttrInv, KernelOK
<1>4. \A p \in Proc : dev[p] # d
  BY <1>1, DriversAssumption DEF HandlerInv, UsersOK, Owner, LoaderOK
<1>5. LoaderOK'
  BY <1>1, <1>2 DEF LoaderOK
<1>6. KernelOK' /\ UsersOK'
  BY <1>1, <1>2, <1>3 DEF KernelOK, UsersOK, Owner, userVars, attrVars, kernelVars, AttrDrivers
<1>7. AttrInv'
  BY <1>1, <1>2, <1>3 DEF AttrInv, AttrDrivers, kernelVars
<1>8. DeviceInv'
  BY <1>1, <1>2 DEF DeviceInv, kernelVars
<1>9. HandlerInv'
  BY <1>1, <1>2, <1>4 DEF HandlerInv, userVars, attrVars, UsersOK, Owner
<1>10. FilesPinned'
  BY <1>1, <1>2 DEF FilesPinned, userVars, attrVars, kernelVars, UsersOK
<1> QED BY <1>2, <1>5, <1>6, <1>7, <1>8, <1>9, <1>10

\* A call of exit that touches neither the device nor the private data.
LEMMA QuietCall ==
  ASSUME RegistryInv, NEW d \in Drivers, NEW name \in {"attrs", "class", "cdev", "region"},
         Call(d, "exit", name), KernelOK',
         UNCHANGED <<mod, failed, ptr, pdata, node, misc, attrs, drvdata, userVars>>
  PROVE  RegistryInv'
<1> USE DEF RegistryInv
<1>1. mod[d] = "exit" /\ mod' = mod
  BY DEF Call
<1>2. /\ todo' \in [Drivers -> Seq(Calls)]
      /\ \A e \in Drivers \ {d} : todo'[e] = todo[e]
      /\ \A e \in Drivers : \A c : To(e, c)' <=> To(e, c) /\ (e # d \/ c # name)
      /\ OrderInv'
  BY <1>1, CallExit
<1>3. LoaderOK'
  BY <1>1, <1>2 DEF LoaderOK
<1>4. UsersOK'
  BY <1>1 DEF UsersOK, Owner, userVars, attrVars
<1>5. AttrInv'
  BY <1>1, <1>2 DEF AttrInv, AttrDrivers
<1>6. DeviceInv'
  BY <1>1, <1>2 DEF DeviceInv
<1>7. HandlerInv'
  BY <1>1, <1>2 DEF HandlerInv, userVars, attrVars, UsersOK, Owner
<1>8. FilesPinned'
  BY <1>1 DEF FilesPinned, userVars, attrVars, UsersOK
<1> QED BY <1>2, <1>3, <1>4, <1>5, <1>6, <1>7, <1>8

LEMMA GroupStep ==
  ASSUME RegistryInv, NEW d \in Drivers, sysfs_remove_group(d)
  PROVE  RegistryInv'
<1>1. /\ Call(d, "exit", "attrs") /\ mod[d] = "exit"
      /\ UNCHANGED <<failed, ptr, pdata, kernelVars, userVars>>
  BY DEF sysfs_remove_group, Call
<1>2. CASE mod' = mod
  <2>1. KernelOK'
    BY <1>1 DEF RegistryInv, KernelOK, kernelVars, Owner
  <2>2. UNCHANGED <<mod, failed, ptr, pdata, node, misc, attrs, drvdata, userVars>>
    BY <1>1, <1>2 DEF kernelVars
  <2> QED BY <1>1, <2>1, <2>2, QuietCall
<1>3. CASE Crashes(d)
  <2>1. mod' = [mod EXCEPT ![d] = "dead"]
    BY <1>3 DEF Crashes
  <2>2. /\ todo' \in [Drivers -> Seq(Calls)] /\ OrderInv'
        /\ \A e \in Drivers \ {d} : todo'[e] = todo[e]
    BY <1>1, <2>1, CallExit DEF RegistryInv
  <2> QED BY <1>1, <1>3, <2>2, CrashStep DEF RegistryInv, LoaderOK
<1> QED BY <1>2, <1>3 DEF sysfs_remove_group

LEMMA ClassDestroyStep ==
  ASSUME RegistryInv, NEW d \in Drivers, class_destroy(d)
  PROVE  RegistryInv'
<1>1. KernelOK'
  BY DEF RegistryInv, class_destroy, KernelOK, Owner
<1> QED BY <1>1, QuietCall DEF class_destroy

\* What is left when one is taken out of a sequence.
LEMMA RemoveAtSeq ==
  ASSUME NEW S, NEW s \in Seq(S), NEW k \in 1..Len(s)
  PROVE  /\ RemoveAt(s, k) \in Seq(S) /\ Len(RemoveAt(s, k)) = Len(s) - 1
         /\ \A j \in 1..Len(s) - 1 : RemoveAt(s, k)[j] = IF j < k THEN s[j] ELSE s[j + 1]
<1> DEFINE a == SubSeq(s, 1, k - 1)
           b == SubSeq(s, k + 1, Len(s))
<1>1. Len(s) \in Nat /\ k \in Nat /\ k >= 1 /\ k <= Len(s)
  OBVIOUS
<1>2. a \in Seq(S) /\ Len(a) = k - 1 /\ \A j \in 1..k - 1 : a[j] = s[j]
  BY <1>1
<1>3. b \in Seq(S) /\ Len(b) = Len(s) - k /\ \A j \in 1..Len(s) - k : b[j] = s[k + j]
  BY <1>1
<1> DEFINE c == a \o b
<1>4. RemoveAt(s, k) = c
  BY DEF RemoveAt
<1> HIDE DEF a, b
<1>5. c \in Seq(S) /\ Len(c) = Len(s) - 1
  <2>1. c \in Seq(S) /\ Len(c) = Len(a) + Len(b)
    BY <1>2, <1>3, ConcatProperties
  <2> QED BY <1>1, <1>2, <1>3, <2>1
<1>6. \A j \in 1..Len(s) - 1 : c[j] = IF j <= k - 1 THEN a[j] ELSE b[j - (k - 1)]
  BY <1>1, <1>2, <1>3
<1>7. \A j \in 1..Len(s) - 1 : c[j] = IF j < k THEN s[j] ELSE s[j + 1]
  BY <1>1, <1>2, <1>3, <1>6
<1> HIDE DEF c
<1> QED BY <1>4, <1>5, <1>7

LEMMA CdevDelStep ==
  ASSUME RegistryInv, NEW d \in Drivers, cdev_del(d)
  PROVE  RegistryInv'
<1>1. PICK k \in 1..Len(cdevs) : cdevs' = RemoveAt(cdevs, k)
  BY DEF cdev_del
<1>2. cdevs' \in Seq(Drivers)
  BY <1>1, RemoveAtSeq DEF RegistryInv, KernelOK
<1>3. KernelOK'
  BY <1>2 DEF RegistryInv, cdev_del, KernelOK, Owner
<1> QED BY <1>3, QuietCall DEF cdev_del

LEMMA UnregisterStep ==
  ASSUME RegistryInv, NEW d \in Drivers, unregister_chrdev_region(d)
  PROVE  RegistryInv'
<1>1. KernelOK'
  BY DEF RegistryInv, unregister_chrdev_region, KernelOK, Owner
<1> QED BY <1>1, QuietCall DEF unregister_chrdev_region

LEMMA DestroyStep ==
  ASSUME RegistryInv, NEW d \in Drivers, device_destroy(d)
  PROVE  RegistryInv'
<1> USE DEF RegistryInv
<1>1. /\ Call(d, "exit", "device") /\ mod[d] = "exit" /\ d \notin attrs /\ ~InHandler(d)
      /\ mod' = mod \/ mod' = [mod EXCEPT ![d] = "dead"]
      /\ UNCHANGED <<failed, ptr, pdata, region, cdevs, class, misc, attrs, userVars>>
  BY DEF device_destroy, Call, Crashes
<1>2. /\ todo' \in [Drivers -> Seq(Calls)] /\ To(d, "device")
      /\ \A e \in Drivers \ {d} : todo'[e] = todo[e]
      /\ \A e \in Drivers : \A c : To(e, c)' <=> To(e, c) /\ (e # d \/ c # "device")
      /\ OrderInv'
  BY <1>1, CallExit
<1>3. /\ mod' \in [Drivers -> {"unloaded", "init", "live", "exit", "dead"}]
      /\ mod'[d] \in {"exit", "dead"} /\ \A e \in Drivers \ {d} : mod'[e] = mod[e]
  BY <1>1 DEF LoaderOK
<1>4. d # "my_misc" /\ d \notin failed /\ d \in Drivers /\ NoOne \notin Drivers
  BY <1>1, <1>2, DriversAssumption DEF OrderInv, DeviceInv
<1>5. \/ node = d /\ node' = NoOne /\ drvdata' = drvdata \ {d}
      \/ "dev" \notin ptr[d] /\ d \notin drvdata /\ node' = node /\ drvdata' = drvdata
  <2>1. CASE "dev" \in ptr[d]
    BY <1>1, <1>2, <2>1 DEF device_destroy, DeviceInv
  <2>2. CASE "dev" \notin ptr[d]
    <3>1. d \notin drvdata
      BY <1>1, <1>4, <2>2 DEF AttrInv, KernelOK
    <3> QED BY <2>2, <3>1 DEF device_destroy
  <2> QED BY <2>1, <2>2
<1>6. LoaderOK'
  BY <1>1, <1>2, <1>3 DEF LoaderOK
<1>7. KernelOK' /\ UsersOK'
  <2>1. node' \in Owner /\ drvdata' \subseteq AttrDrivers \cap pdata
    BY <1>5 DEF KernelOK, Owner
  <2>2. UsersOK'
    BY <1>1 DEF UsersOK, userVars, attrVars, Owner
  <2> QED BY <1>1, <2>1, <2>2 DEF KernelOK, Owner
<1>8. AttrInv'
  BY <1>1, <1>2, <1>3, <1>4, <1>5 DEF AttrInv, AttrDrivers
<1>9. DeviceInv'
  BY <1>1, <1>2, <1>3, <1>4, <1>5 DEF DeviceInv
<1>10. HandlerInv'
  BY <1>1, <1>2, <1>3 DEF HandlerInv, userVars, attrVars, UsersOK, Owner, InHandler
<1>11. FilesPinned'
  BY <1>1, <1>3, <1>5 DEF FilesPinned, userVars, attrVars, UsersOK, Owner, InHandler
<1> QED BY <1>2, <1>6, <1>7, <1>8, <1>9, <1>10, <1>11

LEMMA DeregisterStep ==
  ASSUME RegistryInv, NEW d \in Drivers, misc_deregister(d)
  PROVE  RegistryInv'
<1> USE DEF RegistryInv
<1>1. /\ Call(d, "exit", "misc") /\ mod[d] = "exit" /\ d \notin attrs /\ ~InHandler(d)
      /\ misc' = misc \ {d} /\ drvdata' = drvdata \ {d}
      /\ UNCHANGED <<mod, failed, ptr, pdata, region, cdevs, class, node, attrs, userVars>>
  BY DEF misc_deregister, Call
<1>2. /\ todo' \in [Drivers -> Seq(Calls)] /\ To(d, "misc")
      /\ \A e \in Drivers \ {d} : todo'[e] = todo[e]
      /\ \A e \in Drivers : \A c : To(e, c)' <=> To(e, c) /\ (e # d \/ c # "misc")
      /\ OrderInv'
  BY <1>1, CallExit
<1>3. LoaderOK'
  BY <1>1, <1>2 DEF LoaderOK
<1>4. KernelOK' /\ UsersOK'
  BY <1>1 DEF KernelOK, UsersOK, Owner, userVars, attrVars
<1>5. AttrInv'
  BY <1>1, <1>2 DEF AttrInv, AttrDrivers
<1>6. DeviceInv'
  BY <1>1, <1>2 DEF DeviceInv
<1>7. HandlerInv'
  BY <1>1, <1>2 DEF HandlerInv, userVars, attrVars, UsersOK, Owner
<1>8. FilesPinned'
  BY <1>1 DEF FilesPinned, userVars, attrVars, UsersOK, InHandler
<1> QED BY <1>2, <1>3, <1>4, <1>5, <1>6, <1>7, <1>8

\* Private data is freed when the device is gone and nobody has a file open.
LEMMA KfreeStep ==
  ASSUME RegistryInv, NEW d \in Drivers, kfree_pdata(d)
  PROVE  RegistryInv'
<1> USE DEF RegistryInv
<1>1. /\ Call(d, "exit", "pdata") /\ mod[d] = "exit" /\ pdata' = pdata \ {d}
      /\ UNCHANGED <<mod, failed, ptr, kernelVars, file, private, dev>>
  BY DEF kfree_pdata, Call
<1>2. /\ todo' \in [Drivers -> Seq(Calls)] /\ To(d, "pdata")
      /\ \A e \in Drivers \ {d} : todo'[e] = todo[e]
      /\ \A e \in Drivers : \A c : To(e, c)' <=> To(e, c) /\ (e # d \/ c # "pdata")
      /\ \A c \in Calls : To(d, c) /\ c # "pdata" => ExitOrder["pdata"] < ExitOrder[c]
      /\ OrderInv'
  BY <1>1, CallExit
<1>3. ~To(d, "device") /\ ~To(d, "misc")
  BY <1>2, OrderFacts DEF Calls
<1>4. d \notin drvdata /\ d \notin failed /\ NoOne \notin Drivers
  BY <1>1, <1>3, DriversAssumption DEF AttrInv, DeviceInv, KernelOK
<1>5. \A p \in private : file[p] # d
  BY <1>1, <1>4 DEF FilesPinned, UsersOK
<1>6. LoaderOK'
  BY <1>1, <1>2 DEF LoaderOK
<1>7. KernelOK' /\ UsersOK'
  BY <1>1, <1>4 DEF KernelOK, UsersOK, Owner, kernelVars
<1>8. AttrInv'
  BY <1>1, <1>2 DEF AttrInv, AttrDrivers, kernelVars
<1>9. DeviceInv'
  BY <1>1, <1>2 DEF DeviceInv, kernelVars
<1>10. HandlerInv'
  BY <1>1, <1>2 DEF HandlerInv, UsersOK, Owner
<1>11. FilesPinned'
  BY <1>1, <1>4, <1>5 DEF FilesPinned, UsersOK, kernelVars
<1> QED BY <1>2, <1>6, <1>7, <1>8, <1>9, <1>10, <1>11

\* What d has to do is what it had.
LEMMA SameToDo ==
  ASSUME todo' = todo
  PROVE  \A d : \A c : To(d, c)' <=> To(d, c)
BY DEF To

\* What an empty list says.
LEMMA NothingToDo ==
  ASSUME NEW d, todo[d] = <<>>
  PROVE  \A c : ~To(d, c)
BY DEF To

LEMMA InitReturnStep ==
  ASSUME RegistryInv, NEW d \in Drivers, init_return(d)
  PROVE  RegistryInv'
<1> USE DEF RegistryInv
<1>1. /\ mod[d] = "init" /\ todo[d] = <<>> /\ todo' = todo
      /\ UNCHANGED <<failed, pdata, kernelVars, userVars>>
      /\ \A c : ~To(d, c)
      /\ \A e \in Drivers : \A c : To(e, c)' <=> To(e, c)
  BY SameToDo, NothingToDo DEF init_return
<1>2. /\ mod' \in [Drivers -> {"unloaded", "init", "live", "exit", "dead"}]
      /\ mod'[d] = IF d \in failed THEN "unloaded" ELSE "live"
      /\ \A e \in Drivers \ {d} : mod'[e] = mod[e]
      /\ ptr' \in [Drivers -> SUBSET {"my_class", "dev", "error"}]
      /\ \A e \in Drivers \ {d} : ptr'[e] = ptr[e]
      /\ mod'[d] = "live" => ptr'[d] = ptr[d]
  BY DEF init_return, LoaderOK
<1>3. LoaderOK'
  BY <1>1, <1>2 DEF LoaderOK
<1>4. KernelOK' /\ UsersOK'
  BY <1>1 DEF KernelOK, UsersOK, Owner, userVars, attrVars, kernelVars
<1>5. OrderInv'
  BY <1>1, <1>2 DEF OrderInv, Ordered
<1>6. AttrInv'
  BY <1>1, <1>2 DEF AttrInv, AttrDrivers, kernelVars
<1>7. DeviceInv'
  BY <1>1, <1>2 DEF DeviceInv, kernelVars
<1>8. HandlerInv'
  BY <1>1, <1>2 DEF HandlerInv, userVars, attrVars, UsersOK, Owner
<1>9. FilesPinned'
  BY <1>1, <1>2 DEF FilesPinned, userVars, attrVars, UsersOK, Owner, kernelVars
<1> QED BY <1>3, <1>4, <1>5, <1>6, <1>7, <1>8, <1>9

LEMMA ExitReturnStep ==
  ASSUME RegistryInv, NEW d \in Drivers, exit_return(d)
  PROVE  RegistryInv'
<1> USE DEF RegistryInv
<1>1. /\ mod[d] = "exit" /\ todo[d] = <<>> /\ todo' = todo
      /\ UNCHANGED <<failed, pdata, kernelVars, userVars>>
      /\ \A c : ~To(d, c)
      /\ \A e \in Drivers : \A c : To(e, c)' <=> To(e, c)
  BY SameToDo, NothingToDo DEF exit_return
<1>2. /\ mod' \in [Drivers -> {"unloaded", "init", "live", "exit", "dead"}]
      /\ mod'[d] = "unloaded" /\ \A e \in Drivers \ {d} : mod'[e] = mod[e]
      /\ ptr' \in [Drivers -> SUBSET {"my_class", "dev", "error"}]
      /\ \A e \in Drivers \ {d} : ptr'[e] = ptr[e]
  BY DEF exit_return, LoaderOK
<1>3. d \notin attrs /\ d \notin drvdata /\ d \notin failed
  BY <1>1 DEF AttrInv, KernelOK, DeviceInv
<1>4. LoaderOK'
  BY <1>1, <1>2 DEF LoaderOK
<1>5. KernelOK' /\ UsersOK'
  BY <1>1 DEF KernelOK, UsersOK, Owner, userVars, attrVars, kernelVars
<1>6. OrderInv'
  BY <1>1, <1>2 DEF OrderInv, Ordered
<1>7. AttrInv'
  BY <1>1, <1>2, <1>3 DEF AttrInv, AttrDrivers, kernelVars
<1>8. DeviceInv'
  BY <1>1, <1>2 DEF DeviceInv, kernelVars
<1>9. HandlerInv'
  BY <1>1, <1>2, <1>3 DEF HandlerInv, FilesPinned, userVars, attrVars, UsersOK, Owner
<1>10. FilesPinned'
  BY <1>1, <1>2, <1>3 DEF FilesPinned, userVars, attrVars, UsersOK, Owner, kernelVars
<1> QED BY <1>4, <1>5, <1>6, <1>7, <1>8, <1>9, <1>10

LEMMA DeactivateStep ==
  ASSUME RegistryInv, NEW d \in Drivers, deactivate_attrs(d)
  PROVE  RegistryInv'
<1> USE DEF RegistryInv
<1>1. /\ attrs' = attrs \ {d}
      /\ UNCHANGED <<loaderVars, region, cdevs, class, node, misc, drvdata, userVars>>
      /\ \A e \in Drivers : \A c : To(e, c)' <=> To(e, c)
  BY SameToDo DEF deactivate_attrs, loaderVars
<1>2. LoaderOK' /\ KernelOK' /\ UsersOK'
  BY <1>1 DEF LoaderOK, KernelOK, UsersOK, Owner, loaderVars, userVars, attrVars
<1>3. OrderInv'
  BY <1>1 DEF OrderInv, Ordered, loaderVars
<1>4. AttrInv'
  BY <1>1 DEF AttrInv, AttrDrivers, loaderVars
<1>5. DeviceInv' /\ HandlerInv' /\ FilesPinned'
  BY <1>1 DEF DeviceInv, HandlerInv, FilesPinned, loaderVars, userVars, attrVars
<1> QED BY <1>2, <1>3, <1>4, <1>5

LEMMA InsmodStep ==
  ASSUME RegistryInv, NEW d \in Drivers, insmod(d)
  PROVE  RegistryInv'
<1> USE DEF RegistryInv
<1> DEFINE s == InitCalls(d)
<1>1. /\ mod[d] = "unloaded" /\ (OneAtATime => \A e \in Drivers : mod[e] = "unloaded")
      /\ mod' = [mod EXCEPT ![d] = "init"] /\ todo' = [todo EXCEPT ![d] = s]
      /\ ptr' = [ptr EXCEPT ![d] = {}] /\ failed' = failed \ {d}
      /\ UNCHANGED <<pdata, kernelVars, file, private, dev>>
  BY DEF insmod
<1>2. /\ s \in Seq(Calls) /\ Ordered(s, InitOrder)
      /\ \A c : (\E k \in 1..Len(s) : s[k] = c) <=>
           \/ d = "my_misc" /\ c \in {"misc", "attrs", "pdata", "drvdata"}
           \/ d # "my_misc" /\ c \in {"region", "cdev", "class", "device"}
           \/ d \notin {"my_misc", "sleepy"} /\ c = "pdata"
           \/ d \in WithAttrs \ {"my_misc"} /\ c \in {"attrs", "drvdata"}
  BY InitToDo
<1> HIDE DEF s
<1>3. /\ mod' \in [Drivers -> {"unloaded", "init", "live", "exit", "dead"}]
      /\ mod'[d] = "init" /\ \A e \in Drivers \ {d} : mod'[e] = mod[e]
      /\ todo' \in [Drivers -> Seq(Calls)]
      /\ todo'[d] = s /\ \A e \in Drivers \ {d} : todo'[e] = todo[e]
      /\ ptr' \in [Drivers -> SUBSET {"my_class", "dev", "error"}]
      /\ ptr'[d] = {} /\ \A e \in Drivers \ {d} : ptr'[e] = ptr[e]
  BY <1>1, <1>2 DEF LoaderOK
<1>4. /\ \A c : To(d, c)' <=> \E k \in 1..Len(s) : s[k] = c
      /\ \A e \in Drivers \ {d} : \A c : To(e, c)' <=> To(e, c)
  BY <1>3 DEF To
<1>5. d \notin attrs /\ (d = "my_misc" => d \notin drvdata)
  BY <1>1 DEF AttrInv, KernelOK
<1>6. \A p \in Proc : dev[p] # d
  BY <1>1, DriversAssumption DEF HandlerInv, UsersOK, Owner
<1>7. LoaderOK'
  BY <1>1, <1>3 DEF LoaderOK
<1>8. KernelOK' /\ UsersOK'
  BY <1>1 DEF KernelOK, UsersOK, Owner, kernelVars
<1>9. OrderInv'
  <2>1. \A e \in Drivers \ {d} :
          (Ordered(todo[e], InitOrder)' <=> Ordered(todo[e], InitOrder))
          /\ (Ordered(todo[e], ExitOrder)' <=> Ordered(todo[e], ExitOrder))
    BY <1>3 DEF Ordered
  <2>2. Ordered(todo[d], InitOrder)'
    BY <1>2, <1>3 DEF Ordered
  <2>3. /\ d \notin WithAttrs => ~To(d, "attrs")' /\ ~To(d, "drvdata")'
        /\ d = "my_misc" =>
             ~To(d, "region")' /\ ~To(d, "cdev")' /\ ~To(d, "class")' /\ ~To(d, "device")'
        /\ d # "my_misc" => ~To(d, "misc")'
        /\ d = "sleepy" => ~To(d, "pdata")'
    BY <1>2, <1>4 DEF WithAttrs
  <2> QED BY <1>3, <1>4, <2>1, <2>2, <2>3 DEF OrderInv
<1>10. AttrInv'
  <2>1. \A e \in AttrDrivers \ {d} : e \in failed' <=> e \in failed
    BY <1>1
  <2>2. d \in AttrDrivers => To(d, "attrs")' /\ (To(d, "drvdata")' => To(d, "pdata")')
    BY <1>2, <1>4 DEF AttrDrivers, WithAttrs
  <2> QED BY <1>1, <1>3, <1>4, <1>5, <2>1, <2>2 DEF AttrInv, AttrDrivers, kernelVars
<1>11. DeviceInv'
  BY <1>1, <1>3, <1>4 DEF DeviceInv, kernelVars
<1>12. HandlerInv'
  BY <1>1, <1>3, <1>6 DEF HandlerInv, UsersOK, Owner
<1>13. FilesPinned'
  BY <1>1, <1>3 DEF FilesPinned, UsersOK, Owner, kernelVars
<1> QED BY <1>7, <1>8, <1>9, <1>10, <1>11, <1>12, <1>13

LEMMA RmmodStep ==
  ASSUME RegistryInv, NEW d \in Drivers, rmmod(d)
  PROVE  RegistryInv'
<1> USE DEF RegistryInv
<1> DEFINE s == ExitCalls(d)
<1>1. /\ mod[d] = "live" /\ \A p \in Proc : file[p] # d
      /\ mod' = [mod EXCEPT ![d] = "exit"] /\ todo' = [todo EXCEPT ![d] = s]
      /\ UNCHANGED <<failed, ptr, pdata, kernelVars, userVars>>
  BY DEF rmmod, chrdev_fops_owner
<1>2. /\ s \in Seq(Calls) /\ Ordered(s, ExitOrder)
      /\ \A c : (\E k \in 1..Len(s) : s[k] = c) <=>
           \/ d = "my_misc" /\ c = "misc"
           \/ d # "my_misc" /\ c \in {"device", "class", "cdev", "region"}
           \/ d \notin {"my_misc", "sleepy"} /\ c = "pdata"
           \/ d = "my_create_group_attr" /\ c = "attrs"
  BY ExitToDo
<1> HIDE DEF s
<1>3. /\ mod' \in [Drivers -> {"unloaded", "init", "live", "exit", "dead"}]
      /\ mod'[d] = "exit" /\ \A e \in Drivers \ {d} : mod'[e] = mod[e]
      /\ todo' \in [Drivers -> Seq(Calls)]
      /\ todo'[d] = s /\ \A e \in Drivers \ {d} : todo'[e] = todo[e]
  BY <1>1, <1>2 DEF LoaderOK
<1>4. /\ \A c : To(d, c)' <=> \E k \in 1..Len(s) : s[k] = c
      /\ \A e \in Drivers \ {d} : \A c : To(e, c)' <=> To(e, c)
  BY <1>3 DEF To
<1>5. LoaderOK'
  BY <1>1, <1>3 DEF LoaderOK
<1>6. KernelOK' /\ UsersOK'
  BY <1>1 DEF KernelOK, UsersOK, Owner, kernelVars, userVars, attrVars
<1>7. OrderInv'
  <2>1. \A e \in Drivers \ {d} :
          (Ordered(todo[e], InitOrder)' <=> Ordered(todo[e], InitOrder))
          /\ (Ordered(todo[e], ExitOrder)' <=> Ordered(todo[e], ExitOrder))
    BY <1>3 DEF Ordered
  <2>2. Ordered(todo[d], ExitOrder)'
    BY <1>2, <1>3 DEF Ordered
  <2>3. /\ d = "my_misc" =>
             ~To(d, "region")' /\ ~To(d, "cdev")' /\ ~To(d, "class")' /\ ~To(d, "device")'
        /\ d # "my_misc" => ~To(d, "misc")'
        /\ d \in {"my_misc", "sleepy"} => ~To(d, "pdata")'
    BY <1>2, <1>4
  <2> QED BY <1>3, <1>4, <2>1, <2>2, <2>3 DEF OrderInv
<1>8. AttrInv'
  <2>1. To(d, "device")' \/ To(d, "misc")'
    BY <1>2, <1>4
  <2> QED BY <1>1, <1>3, <1>4, <2>1 DEF AttrInv, AttrDrivers, kernelVars
<1>9. DeviceInv'
  BY <1>1, <1>3, <1>4 DEF DeviceInv, kernelVars
<1>10. HandlerInv'
  BY <1>1, <1>3 DEF HandlerInv, UsersOK, Owner, userVars, attrVars
<1>11. FilesPinned'
  BY <1>1, <1>3 DEF FilesPinned, UsersOK, Owner, kernelVars, userVars, attrVars
<1> QED BY <1>5, <1>6, <1>7, <1>8, <1>9, <1>10, <1>11

\* A process opens a device of a module that is in memory, and closes it.
LEMMA OpenStep ==
  ASSUME RegistryInv, NEW p \in Proc, NEW d \in Drivers, mod[d] \in {"init", "live"}, Opens(p,
         d)
  PROVE  RegistryInv'
<1> USE DEF RegistryInv
<1>1. /\ file \in [Proc -> Owner] /\ file' \in [Proc -> Owner] /\ file'[p] = d
      /\ \A q \in Proc \ {p} : file'[q] = file[q]
      /\ private' \subseteq private \cup {p} /\ (p \in private' => d \in pdata \/ p \in private)
      /\ p \notin private
      /\ UNCHANGED <<loaderVars, kernelVars, attrVars>>
      /\ \A e \in Drivers : \A c : To(e, c)' <=> To(e, c)
  BY SameToDo, DriversAssumption DEF Opens, UsersOK, Owner, loaderVars, FilesPinned, LoaderOK
<1>2. LoaderOK' /\ KernelOK' /\ UsersOK'
  BY <1>1 DEF LoaderOK, KernelOK, UsersOK, Owner, loaderVars, kernelVars, attrVars
<1>3. OrderInv' /\ AttrInv' /\ DeviceInv' /\ HandlerInv'
  BY <1>1 DEF OrderInv, Ordered, AttrInv, AttrDrivers, DeviceInv, HandlerInv, loaderVars,
    kernelVars, attrVars
<1>4. FilesPinned'
  BY <1>1 DEF FilesPinned, UsersOK, loaderVars, kernelVars, attrVars
<1> QED BY <1>2, <1>3, <1>4

LEMMA ReleaseStep ==
  ASSUME RegistryInv, NEW p \in Proc, my_chrdev_release(p)
  PROVE  RegistryInv'
<1> USE DEF RegistryInv
<1>1. /\ file \in [Proc -> Owner] /\ file' \in [Proc -> Owner] /\ file'[p] = NoOne
      /\ \A q \in Proc \ {p} : file'[q] = file[q]
      /\ private' = private \ {p}
      /\ UNCHANGED <<loaderVars, kernelVars, attrVars>>
      /\ \A e \in Drivers : \A c : To(e, c)' <=> To(e, c)
  BY SameToDo DEF my_chrdev_release, UsersOK, Owner, loaderVars
<1>2. LoaderOK' /\ KernelOK' /\ UsersOK'
  BY <1>1 DEF LoaderOK, KernelOK, UsersOK, Owner, loaderVars, kernelVars, attrVars
<1>3. OrderInv' /\ AttrInv' /\ DeviceInv' /\ HandlerInv'
  BY <1>1 DEF OrderInv, Ordered, AttrInv, AttrDrivers, DeviceInv, HandlerInv, loaderVars,
    kernelVars, attrVars
<1>4. FilesPinned'
  BY <1>1 DEF FilesPinned, UsersOK, loaderVars, kernelVars, attrVars
<1> QED BY <1>2, <1>3, <1>4

\* A process enters a handler of d, which has its private data, or leaves one.
LEMMA EnterStep ==
  ASSUME RegistryInv, NEW p \in Proc, NEW d \in attrs \cap drvdata,
         dev' = dev \/ dev' = [dev EXCEPT ![p] = d] \/ dev' = [dev EXCEPT ![p] = NoOne],
         UNCHANGED <<loaderVars, kernelVars, file, private>>
  PROVE  RegistryInv'
<1> USE DEF RegistryInv
<1>1. d \in Drivers /\ d \in pdata /\ d \notin failed /\ mod[d] # "unloaded"
  BY DEF KernelOK, AttrDrivers, AttrInv
<1>2. mod[d] = "init" => todo[d] = <<>>
  BY <1>1 DEF KernelOK, AttrDrivers, AttrInv
<1>3. /\ dev \in [Proc -> Owner] /\ dev' \in [Proc -> Owner] /\ dev'[p] \in {d, NoOne, dev[p]}
      /\ \A q \in Proc \ {p} : dev'[q] = dev[q]
      /\ \A e \in Drivers : \A c : To(e, c)' <=> To(e, c)
  BY <1>1, SameToDo DEF UsersOK, Owner, loaderVars
<1>4. LoaderOK' /\ KernelOK' /\ UsersOK'
  BY <1>3 DEF LoaderOK, KernelOK, UsersOK, Owner, loaderVars, kernelVars
<1>5. OrderInv' /\ AttrInv' /\ DeviceInv'
  BY <1>3 DEF OrderInv, Ordered, AttrInv, AttrDrivers, DeviceInv, loaderVars, kernelVars
<1>6. HandlerInv'
  BY <1>1, <1>2, <1>3 DEF HandlerInv, loaderVars
<1>7. FilesPinned'
  BY <1>1, <1>3 DEF FilesPinned, UsersOK, loaderVars, kernelVars
<1> QED BY <1>4, <1>5, <1>6, <1>7

LEMMA LeaveStep ==
  ASSUME RegistryInv, NEW p \in Proc, dev' = dev \/ dev' = [dev EXCEPT ![p] = NoOne],
         UNCHANGED <<loaderVars, kernelVars, file, private>>
  PROVE  RegistryInv'
<1> USE DEF RegistryInv
<1>1. /\ dev \in [Proc -> Owner] /\ dev' \in [Proc -> Owner] /\ dev'[p] \in {NoOne, dev[p]}
      /\ \A q \in Proc \ {p} : dev'[q] = dev[q]
      /\ \A e \in Drivers : \A c : To(e, c)' <=> To(e, c)
  BY SameToDo DEF UsersOK, Owner, loaderVars
<1>2. LoaderOK' /\ KernelOK' /\ UsersOK'
  BY <1>1 DEF LoaderOK, KernelOK, UsersOK, Owner, loaderVars, kernelVars
<1>3. OrderInv' /\ AttrInv' /\ DeviceInv'
  BY <1>1 DEF OrderInv, Ordered, AttrInv, AttrDrivers, DeviceInv, loaderVars, kernelVars
<1>4. HandlerInv'
  BY <1>1 DEF HandlerInv, loaderVars
<1>5. FilesPinned'
  BY <1>1 DEF FilesPinned, UsersOK, loaderVars, kernelVars
<1> QED BY <1>2, <1>3, <1>4, <1>5

\* The handler finds no private data and follows NULL.
LEMMA OopsStep ==
  ASSUME RegistryInv, NEW d \in attrs, Crashes(d),
         UNCHANGED <<todo, failed, ptr, pdata, kernelVars, userVars>>
  PROVE  RegistryInv'
<1>1. d \in Drivers /\ mod[d] # "unloaded"
  BY DEF RegistryInv, KernelOK, AttrDrivers, AttrInv
<1>2. /\ mod'[d] = "dead" /\ \A e \in Drivers \ {d} : mod'[e] = mod[e]
      /\ \A e \in Drivers : \A c : To(e, c)' <=> To(e, c)
  BY <1>1, SameToDo DEF RegistryInv, LoaderOK, Crashes
<1>3. OrderInv'
  BY <1>2 DEF RegistryInv, OrderInv, Ordered
<1> QED BY <1>1, <1>3, CrashStep DEF RegistryInv, LoaderOK

-----------------------------------------------------------------------------
(* The registries, put together *)

LEMMA RegistryInit == Init => RegistryInv
<1> SUFFICES ASSUME Init PROVE RegistryInv
  OBVIOUS
<1>1. \A d \in Drivers : mod[d] = "unloaded" /\ todo[d] = <<>> /\ \A c : ~To(d, c)
  BY NothingToDo DEF Init
<1>2. LoaderOK
  BY DEF Init, LoaderOK
<1>3. KernelOK /\ UsersOK
  BY DEF Init, AttrsInit, KernelOK, UsersOK, Owner
<1>4. OrderInv
  BY <1>1 DEF OrderInv
<1>5. AttrInv /\ DeviceInv
  BY <1>1 DEF Init, AttrInv, DeviceInv, AttrDrivers
<1>6. HandlerInv /\ FilesPinned
  BY DEF Init, AttrsInit, HandlerInv, FilesPinned
<1> QED BY <1>2, <1>3, <1>4, <1>5, <1>6 DEF RegistryInv

\* What a process does in a handler, and where.
LEMMA EnterHandlerStep ==
  ASSUME RegistryInv, NEW p \in Proc, NEW d \in Drivers, UseAttr(p, d)
  PROVE  RegistryInv'
<1>1. CASE d \in drvdata
  <2>1. dev' = dev \/ dev' = [dev EXCEPT ![p] = d]
    BY <1>1 DEF UseAttr, size_show, size_store, buffer_show, buffer_store, Enter
  <2>2. d \in attrs \cap drvdata /\ UNCHANGED <<loaderVars, kernelVars, file, private>>
    BY <1>1 DEF UseAttr, loaderVars
  <2> QED BY <2>1, <2>2, EnterStep
<1>2. CASE d \notin drvdata
  <2>1. /\ d \in attrs /\ Crashes(d)
        /\ UNCHANGED <<todo, failed, ptr, pdata, kernelVars, userVars>>
    BY <1>2 DEF UseAttr, userVars
  <2> QED BY <2>1, OopsStep
<1> QED BY <1>1, <1>2

LEMMA HandlerStep ==
  ASSUME RegistryInv, NEW p \in Proc, AttrStep(p)
  PROVE  RegistryInv'
<1>1. dev' = dev \/ dev' = [dev EXCEPT ![p] = NoOne]
  BY DEF AttrStep, buffer_show_print, buffer_store_copy, show_return, Leave
<1>2. UNCHANGED <<loaderVars, kernelVars, file, private>>
  BY DEF AttrStep
<1> QED BY <1>1, <1>2, LeaveStep

LEMMA RegistryStep == RegistryInv /\ [Next]_vars => RegistryInv'
<1> SUFFICES ASSUME RegistryInv, [Next]_vars PROVE RegistryInv'
  OBVIOUS
<1>1. ASSUME NEW d \in Drivers, insmod(d) \/ rmmod(d) PROVE RegistryInv'
  BY <1>1, InsmodStep, RmmodStep
<1>2. ASSUME NEW d \in Drivers, ModuleStep(d) PROVE RegistryInv'
  <2>1. CASE init_return(d) \/ exit_return(d)
    BY <2>1, InitReturnStep, ExitReturnStep
  <2>2. CASE register_chrdev_region(d) \/ cdev_add(d) \/ class_create(d) \/ device_create(d)
    BY <2>2, RegionStep, CdevStep, ClassStep, DeviceStep
  <2>3. CASE misc_register(d) \/ create_attrs(d) \/ create_attrs_fails(d)
    BY <2>3, MiscStep, AttrsStep, AttrsFailStep
  <2>4. CASE kzalloc_pdata(d) \/ kzalloc_pdata_fails(d) \/ dev_set_drvdata(d)
    BY <2>4, PdataStep, PdataFailsStep, DrvdataStep
  <2>5. CASE deactivate_attrs(d) \/ sysfs_remove_group(d) \/ device_destroy(d)
    BY <2>5, DeactivateStep, GroupStep, DestroyStep
  <2>6. CASE misc_deregister(d) \/ class_destroy(d) \/ cdev_del(d)
    BY <2>6, DeregisterStep, ClassDestroyStep, CdevDelStep
  <2>7. CASE unregister_chrdev_region(d) \/ kfree_pdata(d)
    BY <2>7, UnregisterStep, KfreeStep
  <2> QED BY <1>2, <2>1, <2>2, <2>3, <2>4, <2>5, <2>6, <2>7 DEF ModuleStep
<1>3. ASSUME NEW p \in Proc, my_chrdev_open(p) PROVE RegistryInv'
  <2> DEFINE d == Head(cdevs)
  <2>1. cdevs # <<>> /\ mod[d] \in {"init", "live"} /\ Opens(p, d)
    BY <1>3 DEF my_chrdev_open
  <2>2. d \in Drivers
    BY <2>1 DEF RegistryInv, KernelOK
  <2> QED BY <2>1, <2>2, OpenStep
<1>4. ASSUME NEW p \in Proc, my_misc_open(p) PROVE RegistryInv'
  <2>1. PICK d \in misc : mod[d] \in {"init", "live"} /\ Opens(p, d)
    BY <1>4 DEF my_misc_open
  <2>2. d \in Drivers
    BY <2>1 DEF RegistryInv, KernelOK
  <2> QED BY <2>1, <2>2, OpenStep
<1>5. ASSUME NEW p \in Proc, my_chrdev_release(p) PROVE RegistryInv'
  BY <1>5, ReleaseStep
<1>6. ASSUME NEW p \in Proc, NEW d \in Drivers, UseAttr(p, d) PROVE RegistryInv'
  BY <1>6, EnterHandlerStep
<1>7. ASSUME NEW p \in Proc, AttrStep(p) PROVE RegistryInv'
  BY <1>7, HandlerStep
<1>8. CASE UNCHANGED vars
  <2>1. UNCHANGED <<loaderVars, kernelVars, userVars>> /\ \A d : \A c : To(d, c)' <=> To(d, c)
    BY <1>8, SameToDo DEF vars, loaderVars
  <2>2. LoaderOK' /\ KernelOK' /\ UsersOK'
    BY <2>1 DEF RegistryInv, LoaderOK, KernelOK, UsersOK, Owner, loaderVars, kernelVars,
      userVars, attrVars
  <2>3. OrderInv' /\ AttrInv'
    BY <2>1 DEF RegistryInv, OrderInv, Ordered, AttrInv, AttrDrivers, loaderVars, kernelVars
  <2>4. DeviceInv' /\ HandlerInv' /\ FilesPinned'
    BY <2>1 DEF RegistryInv, DeviceInv, HandlerInv, FilesPinned, loaderVars, kernelVars,
      userVars, attrVars
  <2> QED BY <2>2, <2>3, <2>4 DEF RegistryInv
<1> QED BY <1>1, <1>2, <1>3, <1>4, <1>5, <1>6, <1>7, <1>8 DEF Next

-----------------------------------------------------------------------------
(* The text, put together *)

LEMMA TextInit == Init => TextInv
<1> SUFFICES ASSUME Init PROVE TextInv
  OBVIOUS
<1>1. /\ size = 0 /\ buffer = Empty /\ text = Empty /\ beside = {}
      /\ at = [p \in Proc |-> <<"none">>] /\ dev = [p \in Proc |-> NoOne]
  BY DEF Init, AttrsInit
<1>2. \A p \in Proc : at[p] = <<"none">> /\ at[p][1] = "none" /\ dev[p] = NoOne
  BY <1>1
<1>3. Storing = {}
  BY <1>2 DEF Storing
<1>4. AttrsTypeOK
  BY <1>1, <1>2 DEF AttrsTypeOK
<1>5. DataInv
  BY <1>1, <1>2, <1>3 DEF DataInv
<1>6. ShownWhole
  BY <1>2 DEF ShownWhole, ReadsBack
<1>7. \E S : at \in [Proc -> S]
  <2>1. at \in [Proc -> {<<"none">>}]
    BY <1>1
  <2> QED BY <2>1
<1> QED BY <1>4, <1>5, <1>6, <1>7 DEF TextInv

LEMMA SameText ==
  ASSUME TextInv, UNCHANGED attrVars
  PROVE  TextInv'
<1>1. AttrsTypeOK'
  BY DEF TextInv, AttrsTypeOK, attrVars
<1>2. DataInv'
  BY DEF TextInv, DataInv, Storing, InBuffer, attrVars
<1>3. ShownWhole'
  BY ReadsBackSame DEF TextInv, ShownWhole, attrVars
<1> QED BY <1>1, <1>2, <1>3 DEF TextInv, attrVars

\* Two drivers with attributes are not in memory at once.
LEMMA OneAttrDriver ==
  ASSUME RegistryInv, NEW d \in AttrDrivers, NEW e \in AttrDrivers,
         mod[d] # "unloaded" \/ ~OneAtATime, mod[e] # "unloaded"
  PROVE  d = e
<1>1. CASE OneAtATime
  BY <1>1 DEF RegistryInv, LoaderOK, AttrDrivers
<1>2. CASE ~OneAtATime
  <2> SUFFICES ASSUME d # e PROVE FALSE
    OBVIOUS
  <2>1. Cardinality(AttrDrivers) < 2
    BY <1>2, DriversAssumption DEF AttrDrivers
  <2>2. IsFiniteSet({"my_create_attr"} \cup {"my_create_group_attr"} \cup {"my_misc"})
    BY FS_Singleton, FS_Union
  <2>3. AttrDrivers \subseteq {"my_create_attr"} \cup {"my_create_group_attr"} \cup {"my_misc"}
    BY DEF AttrDrivers, WithAttrs
  <2>4. IsFiniteSet(AttrDrivers)
    BY <2>2, <2>3, FS_Subset
  <2>5. Cardinality({d} \cup {e}) = 2
    <3>1. IsFiniteSet({d}) /\ Cardinality({d}) = 1 /\ e \notin {d}
      BY FS_Singleton
    <3>2. Cardinality({d} \cup {e}) = Cardinality({d}) + 1
      BY <3>1, FS_AddElement
    <3> QED BY <3>1, <3>2
  <2>6. {d} \cup {e} \subseteq AttrDrivers
    OBVIOUS
  <2>7. Cardinality({d} \cup {e}) <= Cardinality(AttrDrivers)
    BY <2>4, <2>6, FS_Subset
  <2>8. Cardinality(AttrDrivers) \in Nat
    BY <2>4, FS_CardinalityType
  <2> HIDE DEF AttrDrivers
  <2> QED BY <2>1, <2>5, <2>7, <2>8
<1> QED BY <1>1, <1>2

\* The private data of d comes and goes while nobody is in a handler.
LEMMA DataStep ==
  ASSUME RegistryInv, TextInv, NEW d \in Drivers,
         insmod(d) \/ kzalloc_pdata(d) \/ kfree_pdata(d)
  PROVE  TextInv'
<1>1. CASE d \notin WithAttrs
  <2>1. UNCHANGED attrVars
    BY <1>1 DEF insmod, kzalloc_pdata, kfree_pdata, dataVars, attrVars
  <2> QED BY <2>1, SameText
<1>2. CASE d \in WithAttrs
  <2>1. /\ NoData \/ NewData
        /\ UNCHANGED <<dev, at, beside>>
    BY <1>2 DEF insmod, kzalloc_pdata, kfree_pdata
  <2>2. ASSUME NEW p \in Proc PROVE dev[p] = NoOne
    <3> SUFFICES ASSUME dev[p] # NoOne PROVE FALSE
      OBVIOUS
    <3>1. /\ dev[p] \in drvdata /\ dev[p] \in AttrDrivers /\ d \in AttrDrivers
          /\ mod[dev[p]] # "unloaded"
          /\ mod[dev[p]] = "init" => todo[dev[p]] = <<>>
      BY <1>2 DEF RegistryInv, FilesPinned, HandlerInv, KernelOK, AttrDrivers
    <3>2. CASE insmod(d)
      <4>1. ~OneAtATime /\ mod[d] = "unloaded"
        BY <3>1, <3>2 DEF insmod, AttrDrivers
      <4> QED BY <3>1, <4>1, OneAttrDriver
    <3>3. CASE kzalloc_pdata(d)
      <4>1. mod[d] = "init" /\ todo[d] # <<>>
        BY <3>3 DEF kzalloc_pdata, Call
      <4> QED BY <3>1, <4>1, OneAttrDriver
    <3>4. CASE kfree_pdata(d)
      <4>1. mod[d] = "exit" /\ pdata' = pdata \ {d} /\ drvdata' = drvdata
        BY <3>4 DEF kfree_pdata, Call, kernelVars
      <4>2. dev[p] = d
        BY <3>1, <4>1, OneAttrDriver
      <4>3. KernelOK'
        BY <3>4, KfreeStep DEF RegistryInv
      <4> QED BY <3>1, <4>1, <4>2, <4>3 DEF KernelOK
    <3> QED BY <3>2, <3>3, <3>4
  <2>3. \E t \in {Empty, Initial} : text' = t /\ buffer' = t /\ size' \in Nat
    BY <2>1 DEF NoData, NewData
  <2> QED BY <2>1, <2>2, <2>3, RenewText DEF RegistryInv
<1> QED BY <1>1, <1>2

LEMMA TextStep == RegistryInv /\ TextInv /\ [Next]_vars => TextInv'
<1> SUFFICES ASSUME RegistryInv, TextInv, [Next]_vars PROVE TextInv'
  OBVIOUS
<1>1. ASSUME NEW d \in Drivers, insmod(d) \/ kzalloc_pdata(d) \/ kfree_pdata(d) PROVE TextInv'
  BY <1>1, DataStep
<1>2. ASSUME NEW d \in Drivers, rmmod(d) \/ ModuleStep(d), ~kzalloc_pdata(d), ~kfree_pdata(d)
      PROVE  TextInv'
  <2>1. UNCHANGED attrVars
    BY <1>2 DEF rmmod, ModuleStep, init_return, exit_return, register_chrdev_region, cdev_add,
      class_create, device_create, misc_register, create_attrs, create_attrs_fails,
      dev_set_drvdata, deactivate_attrs, sysfs_remove_group, device_destroy, misc_deregister,
      class_destroy, cdev_del, unregister_chrdev_region, kzalloc_pdata_fails, userVars
  <2> QED BY <2>1, SameText
<1>3. ASSUME NEW p \in Proc, my_chrdev_open(p) \/ my_misc_open(p) \/ my_chrdev_release(p)
      PROVE  TextInv'
  <2>1. UNCHANGED attrVars
    BY <1>3 DEF my_chrdev_open, my_misc_open, my_chrdev_release, Opens
  <2> QED BY <2>1, SameText
<1>4. ASSUME NEW p \in Proc, NEW d \in Drivers, UseAttr(p, d) PROVE TextInv'
  <2>1. \/ size_show(p, d) \/ size_store(p) \/ buffer_show(p, d) \/ buffer_store(p, d)
        \/ UNCHANGED attrVars
    BY <1>4 DEF UseAttr
  <2> QED BY <2>1, SizeShowText, SizeStoreText, BufferShowText, BufferStoreText, SameText
        DEF RegistryInv
<1>5. ASSUME NEW p \in Proc, AttrStep(p) PROVE TextInv'
  BY <1>5, BufferPrintText, CopyText, ReturnText DEF AttrStep, RegistryInv
<1>6. CASE UNCHANGED vars
  <2>1. UNCHANGED attrVars
    BY <1>6 DEF vars, userVars
  <2> QED BY <2>1, SameText
<1> QED BY <1>1, <1>2, <1>3, <1>4, <1>5, <1>6 DEF Next, ModuleStep


-----------------------------------------------------------------------------
(* One module at a time *)

LEMMA ClassNames ==
  /\ \A d \in Drivers : ClassName(d) \in {"chardev0", "sleepy"}
  /\ \A d \in WithAttrs : ClassName(d) = "chardev0"
BY DEF ClassName, WithAttrs

\* What a step of d cannot leave behind of another one.
LEMMA OthersLeaveNothing ==
  ASSUME AloneInv, NEW d \in Drivers, OthersKeep(d), mod'[d] # "unloaded" \/ d \in failed'
  PROVE  NothingLeftBehind'
<1> SUFFICES ASSUME NEW e \in Drivers, e \notin failed', mod'[e] = "unloaded"
             PROVE  ~Registered(e)' /\ e \notin pdata' \ {"my_misc"}
  BY DEF NothingLeftBehind
<1>1. e # d /\ e # NoOne
  BY DriversAssumption
<1>2. e \notin failed /\ mod[e] = "unloaded"
  BY <1>1 DEF OthersKeep
<1>3. ~Registered(e) /\ e \notin pdata \ {"my_misc"}
  BY <1>2 DEF AloneInv, NothingLeftBehind
<1>4. class'[ClassName(e)] # e
  BY <1>1, <1>3, ClassNames DEF OthersKeep, Registered
<1>5. ~Contains(cdevs', e)
  BY <1>1, <1>3 DEF OthersKeep, Registered
<1>6. ~Registered(e)'
  BY <1>1, <1>3, <1>4, <1>5 DEF OthersKeep, Registered
<1> QED BY <1>1, <1>3, <1>6 DEF OthersKeep

\* A step that leaves a driver's list alone, and the state of its module, leaves
\* what it has.
LEMMA SameHas ==
  ASSUME NEW d, mod'[d] = mod[d], todo'[d] = todo[d]
  PROVE  \A c : (Has(d, c)' <=> Has(d, c)) /\ (To(d, c)' <=> To(d, c))
BY DEF Has, To

\* While a module is loaded, no other one is.
LEMMA OnlyLoaded ==
  ASSUME OneAtATime, RegistryInv, NEW d \in Drivers, mod[d] # "unloaded"
  PROVE  \A e \in Drivers \ {d} : mod[e] = "unloaded"
BY DEF RegistryInv, LoaderOK

\* A step of a driver of number 255:0 after which it is loaded.
LEMMA Advance ==
  ASSUME OneAtATime, RegistryInv, RegistryInv', AloneInv, NEW d \in ChrDrivers, OthersKeep(d),
         mod[d] # "unloaded" \/ \A e \in Drivers : mod[e] = "unloaded",
         mod'[d] # "unloaded", mod'[d] = "dead" \/ Fresh(d)' \/ Doomed(d)'
  PROVE  AloneInv'
<1>1. \A e \in Drivers \ {d} : mod[e] = "unloaded" /\ mod'[e] = "unloaded"
  BY OnlyLoaded DEF ChrDrivers, OthersKeep
<1>2. FreshOrDoomed'
  BY <1>1 DEF FreshOrDoomed, ChrDrivers
<1>3. FreeOrTaken'
  BY DEF FreeOrTaken, ChrDrivers
<1>4. MiscApart'
  <2>1. d # "my_misc" /\ NoOne \notin Drivers
    BY DriversAssumption DEF ChrDrivers
  <2>2. \A e \in misc' : e = "my_misc" /\ mod'[e] = "unloaded"
    BY <1>1, <2>1 DEF RegistryInv, KernelOK
  <2> QED BY <2>1, <2>2 DEF AloneInv, MiscApart, OthersKeep
<1>5. NothingLeftBehind'
  BY OthersLeaveNothing DEF ChrDrivers
<1> QED BY <1>2, <1>3, <1>4, <1>5 DEF AloneInv

\* The misc device's steps leave number 255:0 alone.
LEMMA AdvanceMisc ==
  ASSUME RegistryInv, RegistryInv', AloneInv, NEW d \in Drivers, d = "my_misc", OthersKeep(d),
         UNCHANGED <<region, node, class, cdevs>>,
         d \in misc' /\ mod'[d] = "exit" => To(d, "misc")',
         mod'[d] # "unloaded" \/ d \in failed' \/ ~(d \in misc' \cup attrs' \cup drvdata')
  PROVE  AloneInv'
<1>1. \A e \in ChrDrivers :
        /\ e \in Drivers /\ e # d /\ mod'[e] = mod[e] /\ ptr'[e] = ptr[e]
        /\ \A c : (Has(e, c)' <=> Has(e, c)) /\ (To(e, c)' <=> To(e, c))
        /\ e \in failed' <=> e \in failed
        /\ e \in pdata' => e \in pdata
  BY SameHas DEF ChrDrivers, OthersKeep
<1>2. failed' \cap ChrDrivers = failed \cap ChrDrivers
  BY <1>1
<1>3. FreshOrDoomed'
  <2> SUFFICES ASSUME NEW e \in ChrDrivers, mod'[e] \in {"init", "live", "exit"}
               PROVE  Fresh(e)' \/ Doomed(e)'
    BY DEF FreshOrDoomed
  <2>1. Fresh(e) \/ Doomed(e)
    BY <1>1 DEF AloneInv, FreshOrDoomed
  <2>2. CASE Fresh(e)
    BY <1>1, <1>2, <2>2 DEF Fresh, ClassName
  <2>3. CASE Doomed(e)
    BY <1>1, <2>3 DEF Doomed, Taken
  <2> QED BY <2>1, <2>2, <2>3
<1>4. FreeOrTaken'
  BY <1>1, <1>2 DEF AloneInv, FreeOrTaken, Free, Taken
<1>5. MiscApart'
  BY DEF AloneInv, MiscApart, RegistryInv, KernelOK
<1>6. NothingLeftBehind'
  <2>1. CASE mod'[d] # "unloaded" \/ d \in failed'
    BY <2>1, OthersLeaveNothing
  <2>2. CASE ~(d \in misc' \cup attrs' \cup drvdata')
    <3> SUFFICES ASSUME NEW e \in Drivers, e \notin failed', mod'[e] = "unloaded"
                 PROVE  ~Registered(e)' /\ e \notin pdata' \ {"my_misc"}
      BY DEF NothingLeftBehind
    <3>1. CASE e = d
      BY <2>2, <3>1, ClassNames DEF Registered, AloneInv, MiscApart
    <3>2. CASE e # d
      <4>1. e \notin failed /\ mod[e] = "unloaded"
        BY <3>2 DEF OthersKeep
      <4>2. ~Registered(e) /\ e \notin pdata \ {"my_misc"}
        BY <4>1 DEF AloneInv, NothingLeftBehind
      <4> QED BY <3>2, <4>2 DEF OthersKeep, Registered
    <3> QED BY <3>1, <3>2
  <2> QED BY <2>1, <2>2
<1> QED BY <1>3, <1>4, <1>5, <1>6 DEF AloneInv

\* A process opens or closes a file, or is in a handler.
LEMMA SameRegistry ==
  ASSUME AloneInv, UNCHANGED <<loaderVars, kernelVars>>
  PROVE  AloneInv'
<1>1. \A e : \A c : (Has(e, c)' <=> Has(e, c)) /\ (To(e, c)' <=> To(e, c))
  BY SameHas DEF loaderVars
<1>2. FreshOrDoomed'
  BY <1>1 DEF AloneInv, FreshOrDoomed, Fresh, Doomed, Taken, loaderVars, kernelVars
<1>3. FreeOrTaken' /\ MiscApart'
  BY <1>1 DEF AloneInv, FreeOrTaken, Free, Taken, MiscApart, loaderVars, kernelVars
<1>4. NothingLeftBehind'
  BY DEF AloneInv, NothingLeftBehind, Registered, loaderVars, kernelVars
<1> QED BY <1>2, <1>3, <1>4 DEF AloneInv

\* A call of init registers, a call of exit takes away.
LEMMA HasAfterInit ==
  ASSUME RegistryInv, NEW d \in Drivers, NEW name, Call(d, "init", name), mod' = mod
  PROVE  /\ mod[d] = "init" /\ To(d, name) /\ ~Has(d, name)
         /\ \A c : (Has(d, c)' <=> Has(d, c) \/ c = name) /\ (To(d, c)' <=>
                To(d, c) /\ c # name)
         /\ \A e \in Drivers \ {d} : todo'[e] = todo[e]
         /\ \A c \in Calls : c # name /\ InitOrder[c] <= InitOrder[name] =>
                ~To(d, c) /\ Has(d, c)
<1>1. /\ mod[d] = "init" /\ To(d, name) /\ name \in Calls
      /\ \A e \in Drivers \ {d} : todo'[e] = todo[e]
      /\ \A c : To(d, c)' <=> To(d, c) /\ c # name
      /\ \A c \in Calls : To(d, c) /\ c # name => InitOrder[name] < InitOrder[c]
  BY CallInit DEF Call, RegistryInv
<1>2. \A c : (Has(d, c) <=> ~To(d, c)) /\ (Has(d, c)' <=> ~To(d, c)')
  BY <1>1 DEF Has
<1>3. \A c \in Calls : c # name /\ InitOrder[c] <= InitOrder[name] => ~To(d, c)
  BY <1>1, OrderFacts
<1> QED BY <1>1, <1>2, <1>3

LEMMA HasAfterExit ==
  ASSUME RegistryInv, NEW d \in Drivers, NEW name, Call(d, "exit", name), mod' = mod
  PROVE  /\ mod[d] = "exit" /\ To(d, name) /\ Has(d, name)
         /\ \A c : (Has(d, c)' <=> Has(d, c) /\ c # name) /\ (To(d, c)' <=>
                To(d, c) /\ c # name)
         /\ \A e \in Drivers \ {d} : todo'[e] = todo[e]
<1>1. /\ mod[d] = "exit" /\ To(d, name)
      /\ \A e \in Drivers \ {d} : todo'[e] = todo[e]
      /\ \A c : To(d, c)' <=> To(d, c) /\ c # name
  BY CallExit DEF Call, RegistryInv
<1>2. \A c : (Has(d, c) <=> To(d, c)) /\ (Has(d, c)' <=> To(d, c)')
  BY <1>1 DEF Has
<1> QED BY <1>1, <1>2

\* A driver of number 255:0 crashes in a call.
LEMMA CrashAlone ==
  ASSUME OneAtATime, RegistryInv, RegistryInv', AloneInv, NEW d \in ChrDrivers,
         NEW phase \in {"init", "exit"}, NEW name, Call(d, phase, name), Crashes(d),
         \A e \in Drivers \ {d} : ptr'[e] = ptr[e],
         UNCHANGED <<failed, pdata, region, cdevs, class, misc, attrs>>,
         node' \in {node, NoOne}, drvdata' \subseteq drvdata
  PROVE  AloneInv'
<1>1. d \in Drivers /\ mod[d] # "unloaded"
  BY DEF Call, ChrDrivers
<1>2. mod'[d] = "dead" /\ \A e \in Drivers \ {d} : mod'[e] = mod[e] /\ todo'[e] = todo[e]
  BY <1>1 DEF Crashes, Call, RegistryInv, LoaderOK
<1>3. OthersKeep(d)
  BY <1>2 DEF OthersKeep
<1> QED BY <1>1, <1>2, <1>3, Advance

LEMMA RegionAlone ==
  ASSUME OneAtATime, "region" \notin MayFail, RegistryInv, RegistryInv', AloneInv,
         NEW d \in ChrDrivers,
         register_chrdev_region(d)
  PROVE  AloneInv'
<1>1. d \in Drivers /\ Call(d, "init", "region") /\ mod' = mod
  BY DEF register_chrdev_region, ChrDrivers
<1>2. /\ mod[d] = "init" /\ To(d, "region") /\ ~Has(d, "region")
      /\ \A c : (Has(d, c)' <=> Has(d, c) \/ c = "region") /\ (To(d, c)' <=>
             To(d, c) /\ c # "region")
      /\ \A e \in Drivers \ {d} : todo'[e] = todo[e]
      /\ \A c \in Calls : c # "region" /\ InitOrder[c] <= InitOrder["region"] =>
             ~To(d, c) /\ Has(d, c)
  BY <1>1, HasAfterInit DEF RegistryInv
<1>3. OthersKeep(d)
  BY <1>1, <1>2 DEF register_chrdev_region, OthersKeep
<1>4. Fresh(d) => Fresh(d)'
  BY <1>1, <1>2, OrderFacts DEF register_chrdev_region, Fresh
<1>5. Doomed(d) => Doomed(d)'
  BY <1>1, <1>2 DEF register_chrdev_region, Doomed, Taken
<1>6. Fresh(d) \/ Doomed(d)
  BY <1>2 DEF AloneInv, FreshOrDoomed
<1> QED BY <1>1, <1>2, <1>3, <1>4, <1>5, <1>6, Advance

LEMMA CdevAlone ==
  ASSUME OneAtATime, RegistryInv, RegistryInv', AloneInv, NEW d \in ChrDrivers, cdev_add(d)
  PROVE  AloneInv'
<1> SUFFICES ASSUME mod' = mod PROVE AloneInv'
  <2> SUFFICES ASSUME mod' # mod PROVE AloneInv'
    OBVIOUS
  <2>1. Call(d, "init", "cdev") /\ Crashes(d)
    BY DEF cdev_add
  <2>2. /\ \A e \in Drivers \ {d} : ptr'[e] = ptr[e]
        /\ UNCHANGED <<failed, pdata, region, cdevs, class, node, misc, attrs, drvdata>>
    BY <2>1 DEF cdev_add, GetsError, ChrDrivers, RegistryInv, LoaderOK
  <2> QED BY <2>1, <2>2, CrashAlone
<1>1. d \in Drivers /\ Call(d, "init", "cdev") /\ mod' = mod
  BY DEF cdev_add, ChrDrivers
<1>2. cdevs' = <<d>> \o cdevs /\ ptr' = ptr
  <2>1. ~Crashes(d)
    BY <1>1 DEF Crashes, Call, RegistryInv, LoaderOK
  <2> QED BY <2>1 DEF cdev_add
<1>3. /\ mod[d] = "init" /\ To(d, "cdev") /\ ~Has(d, "cdev")
      /\ \A c : (Has(d, c)' <=> Has(d, c) \/ c = "cdev") /\ (To(d, c)' <=>
             To(d, c) /\ c # "cdev")
      /\ \A e \in Drivers \ {d} : todo'[e] = todo[e]
      /\ \A c \in Calls : c # "cdev" /\ InitOrder[c] <= InitOrder["cdev"] =>
             ~To(d, c) /\ Has(d, c)
  BY <1>1, HasAfterInit DEF RegistryInv
<1>4. OthersKeep(d)
  <2>1. cdevs \in Seq(Drivers) /\ <<d>> \in Seq(Drivers) /\ Len(<<d>>) = 1 /\ <<d>>[1] = d
    BY <1>1 DEF RegistryInv, KernelOK
  <2>2. /\ Len(cdevs') = 1 + Len(cdevs)
        /\ \A k \in 1..1 + Len(cdevs) : cdevs'[k] = IF k <= 1 THEN <<d>>[k] ELSE cdevs[k - 1]
    BY <1>2, <2>1, ConcatProperties
  <2>3. \A e \in Drivers \ {d} : Contains(cdevs', e) => Contains(cdevs, e)
    BY <2>1, <2>2 DEF Contains
  <2> QED BY <1>1, <1>2, <1>3, <2>3 DEF cdev_add, OthersKeep
<1>5. Fresh(d) => Fresh(d)'
  <2> SUFFICES ASSUME Fresh(d) PROVE Fresh(d)'
    OBVIOUS
  <2>1. cdevs = <<>> /\ cdevs' = <<d>> \o cdevs
    BY <1>2, <1>3 DEF Fresh
  <2>2. <<d>> \in Seq(Drivers)
    BY <1>1
  <2>3. cdevs' = <<d>>
    BY <2>1, <2>2, ConcatEmptySeq
  <2> QED BY <1>1, <1>2, <1>3, <2>3 DEF cdev_add, Fresh, ClassName
<1>6. Doomed(d) => Doomed(d)'
  BY <1>1, <1>2, <1>3 DEF cdev_add, Doomed, Taken
<1>7. Fresh(d) \/ Doomed(d)
  BY <1>3 DEF AloneInv, FreshOrDoomed
<1> QED BY <1>1, <1>3, <1>4, <1>5, <1>6, <1>7, Advance

LEMMA ClassAlone ==
  ASSUME OneAtATime, RegistryInv, RegistryInv', AloneInv, NEW d \in ChrDrivers, class_create(d)
  PROVE  AloneInv'
<1>1. d \in Drivers /\ Call(d, "init", "class") /\ mod' = mod
  BY DEF class_create, ChrDrivers
<1>2. /\ mod[d] = "init" /\ To(d, "class") /\ ~Has(d, "class")
      /\ \A c : (Has(d, c)' <=> Has(d, c) \/ c = "class") /\ (To(d, c)' <=>
             To(d, c) /\ c # "class")
      /\ \A e \in Drivers \ {d} : todo'[e] = todo[e]
      /\ \A c \in Calls : c # "class" /\ InitOrder[c] <= InitOrder["class"] =>
             ~To(d, c) /\ Has(d, c)
  BY <1>1, HasAfterInit DEF RegistryInv
<1>3. \/ /\ class[ClassName(d)] = NoOne
         /\ class' = [class EXCEPT ![ClassName(d)] = d]
         /\ ptr' = [ptr EXCEPT ![d] = ptr[d] \cup {"my_class"}]
      \/ class' = class /\ ptr' = [ptr EXCEPT ![d] = ptr[d] \cup {"error"}]
  BY DEF class_create, GetsError
<1>4. ClassName(d) \in {"chardev0", "sleepy"} /\ class \in [{"chardev0", "sleepy"} -> Owner]
  BY <1>1, ClassNames DEF RegistryInv, KernelOK
<1>5. /\ \A e \in Drivers \ {d} : ptr'[e] = ptr[e]
      /\ "dev" \in ptr'[d] <=> "dev" \in ptr[d]
      /\ \/ class' = class /\ ("my_class" \in ptr'[d] <=> "my_class" \in ptr[d])
         \/ "my_class" \in ptr'[d] /\ class' = [class EXCEPT ![ClassName(d)] = d]
  BY <1>1, <1>3 DEF RegistryInv, LoaderOK
<1>6. OthersKeep(d)
  BY <1>1, <1>2, <1>3, <1>4, <1>5 DEF class_create, OthersKeep
<1>7. Fresh(d) => Fresh(d)'
  <2> SUFFICES ASSUME Fresh(d) PROVE Fresh(d)'
    OBVIOUS
  <2>1. "my_class" \notin ptr[d] /\ \A c \in {"chardev0", "sleepy"} : class[c] = NoOne
    BY <1>2 DEF Fresh
  <2>2. \A c \in {"chardev0", "sleepy"} :
          class'[c] = IF c = ClassName(d) /\ "my_class" \in ptr'[d] THEN d ELSE NoOne
    BY <1>3, <1>4, <1>5, <2>1
  <2>3. ClassName(d)' = ClassName(d) /\ "dev" \notin ptr'[d]
    BY <1>5, <2>1 DEF ClassName, Fresh
  <2>4. d \notin failed
    BY <1>2 DEF Fresh
  <2> QED BY <1>1, <1>2, <2>2, <2>3, <2>4 DEF class_create, Fresh
<1>8. Doomed(d) => Doomed(d)'
  <2> SUFFICES ASSUME Doomed(d) PROVE Doomed(d)'
    OBVIOUS
  <2>1. class'["chardev0"] # NoOne
    BY <1>1, <1>3, <1>4, DriversAssumption DEF Doomed, Taken
  <2> QED BY <1>1, <1>2, <1>5, <2>1 DEF class_create, Doomed, Taken
<1>9. Fresh(d) \/ Doomed(d)
  BY <1>2 DEF AloneInv, FreshOrDoomed
<1> QED BY <1>1, <1>2, <1>6, <1>7, <1>8, <1>9, Advance

LEMMA DeviceAlone ==
  ASSUME OneAtATime, RegistryInv, RegistryInv', AloneInv, NEW d \in ChrDrivers, device_create(d)
  PROVE  AloneInv'
<1>1. d \in Drivers /\ Call(d, "init", "device") /\ mod' = mod
  BY DEF device_create, ChrDrivers
<1>2. /\ mod[d] = "init" /\ To(d, "device") /\ ~Has(d, "device")
      /\ \A c : (Has(d, c)' <=> Has(d, c) \/ c = "device") /\ (To(d, c)' <=>
             To(d, c) /\ c # "device")
      /\ \A e \in Drivers \ {d} : todo'[e] = todo[e]
      /\ \A c \in Calls : c # "device" /\ InitOrder[c] <= InitOrder["device"] =>
             ~To(d, c) /\ Has(d, c)
  BY <1>1, HasAfterInit DEF RegistryInv
<1>3. \/ /\ "my_class" \in ptr[d] /\ node = NoOne
         /\ node' = d /\ ptr' = [ptr EXCEPT ![d] = ptr[d] \cup {"dev"}]
      \/ node' = node /\ ptr' = [ptr EXCEPT ![d] = ptr[d] \cup {"error"}]
  BY DEF device_create, GetsError
<1>4. /\ \A e \in Drivers \ {d} : ptr'[e] = ptr[e]
      /\ "my_class" \in ptr'[d] <=> "my_class" \in ptr[d]
      /\ \/ "my_class" \in ptr[d] /\ node = NoOne /\ node' = d /\ "dev" \in ptr'[d]
         \/ node' = node /\ ("dev" \in ptr'[d] <=> "dev" \in ptr[d])
  BY <1>1, <1>3 DEF RegistryInv, LoaderOK
<1>5. OthersKeep(d)
  BY <1>1, <1>2, <1>4 DEF device_create, OthersKeep
<1>6. Fresh(d) => Fresh(d)'
  <2> SUFFICES ASSUME Fresh(d) PROVE Fresh(d)'
    OBVIOUS
  <2>1. "dev" \notin ptr[d] /\ node = NoOne /\ d \notin failed
    BY <1>2 DEF Fresh
  <2>2. Has(d, "class")' <=> Has(d, "class")
    BY <1>2
  <2>3. ClassName(d)' = ClassName(d)
    BY DEF ClassName
  <2> QED BY <1>1, <1>2, <1>4, <2>1, <2>2, <2>3 DEF device_create, Fresh
<1>7. Doomed(d) => Doomed(d)'
  BY <1>1, <1>2, <1>4 DEF device_create, Doomed, Taken
<1>8. Fresh(d) \/ Doomed(d)
  BY <1>2 DEF AloneInv, FreshOrDoomed
<1> QED BY <1>1, <1>2, <1>5, <1>6, <1>7, <1>8, Advance

LEMMA PdataAlone ==
  ASSUME OneAtATime, RegistryInv, RegistryInv', AloneInv, NEW d \in ChrDrivers, kzalloc_pdata(d)
  PROVE  AloneInv'
<1>1. d \in Drivers /\ Call(d, "init", "pdata") /\ mod' = mod
  BY DEF kzalloc_pdata, ChrDrivers
<1>2. /\ mod[d] = "init" /\ To(d, "pdata") /\ ~Has(d, "pdata")
      /\ \A c : (Has(d, c)' <=> Has(d, c) \/ c = "pdata") /\ (To(d, c)' <=>
             To(d, c) /\ c # "pdata")
      /\ \A e \in Drivers \ {d} : todo'[e] = todo[e]
      /\ \A c \in Calls : c # "pdata" /\ InitOrder[c] <= InitOrder["pdata"] =>
             ~To(d, c) /\ Has(d, c)
  BY <1>1, HasAfterInit DEF RegistryInv
<1>3. OthersKeep(d)
  BY <1>1, <1>2 DEF kzalloc_pdata, OthersKeep, kernelVars
<1>4. Fresh(d) => Fresh(d)'
  BY <1>1, <1>2 DEF kzalloc_pdata, Fresh, kernelVars
<1>5. Doomed(d) => Doomed(d)'
  BY <1>1, <1>2 DEF kzalloc_pdata, Doomed, Taken, kernelVars
<1>6. Fresh(d) \/ Doomed(d)
  BY <1>2 DEF AloneInv, FreshOrDoomed
<1> QED BY <1>1, <1>2, <1>3, <1>4, <1>5, <1>6, Advance

LEMMA PdataFailsAlone ==
  ASSUME OneAtATime, RegistryInv, RegistryInv', AloneInv, NEW d \in ChrDrivers,
         kzalloc_pdata_fails(d)
  PROVE  AloneInv'
<1>1. Call(d, "init", "pdata") /\ Crashes(d) /\ UNCHANGED <<failed, pdata, kernelVars>>
  BY DEF kzalloc_pdata_fails
<1>2. \A e \in Drivers \ {d} : ptr'[e] = ptr[e]
  BY DEF kzalloc_pdata_fails, GetsError, ChrDrivers, RegistryInv, LoaderOK
<1> QED BY <1>1, <1>2, CrashAlone DEF kernelVars

LEMMA DrvdataAlone ==
  ASSUME OneAtATime, RegistryInv, RegistryInv', AloneInv, NEW d \in ChrDrivers,
         dev_set_drvdata(d)
  PROVE  AloneInv'
<1>1. d \in Drivers /\ Call(d, "init", "drvdata") /\ mod' = mod
  BY DEF dev_set_drvdata, ChrDrivers
<1>2. /\ mod[d] = "init" /\ To(d, "drvdata") /\ ~Has(d, "drvdata")
      /\ \A c : (Has(d, c)' <=> Has(d, c) \/ c = "drvdata") /\ (To(d, c)' <=>
             To(d, c) /\ c # "drvdata")
      /\ \A e \in Drivers \ {d} : todo'[e] = todo[e]
      /\ \A c \in Calls : c # "drvdata" /\ InitOrder[c] <= InitOrder["drvdata"] =>
             ~To(d, c) /\ Has(d, c)
  BY <1>1, HasAfterInit DEF RegistryInv
<1>3. OthersKeep(d)
  BY <1>1, <1>2 DEF dev_set_drvdata, OthersKeep
<1>4. Fresh(d) => Fresh(d)'
  BY <1>1, <1>2 DEF dev_set_drvdata, Fresh
<1>5. Doomed(d) => Doomed(d)'
  BY <1>1, <1>2 DEF dev_set_drvdata, Doomed, Taken
<1>6. Fresh(d) \/ Doomed(d)
  BY <1>2 DEF AloneInv, FreshOrDoomed
<1> QED BY <1>1, <1>2, <1>3, <1>4, <1>5, <1>6, Advance

LEMMA GroupAlone ==
  ASSUME OneAtATime, RegistryInv, RegistryInv', AloneInv, NEW d \in ChrDrivers,
         sysfs_remove_group(d)
  PROVE  AloneInv'
<1> SUFFICES ASSUME mod' = mod PROVE AloneInv'
  <2> SUFFICES ASSUME mod' # mod PROVE AloneInv'
    OBVIOUS
  <2>1. Call(d, "exit", "attrs") /\ Crashes(d)
    BY DEF sysfs_remove_group
  <2>2. UNCHANGED <<ptr, failed, pdata, region, cdevs, class, node, misc, attrs, drvdata>>
    BY DEF sysfs_remove_group, kernelVars
  <2> QED BY <2>1, <2>2, CrashAlone
<1>1. d \in Drivers /\ Call(d, "exit", "attrs") /\ mod' = mod
  BY DEF sysfs_remove_group, ChrDrivers
<1>2. /\ mod[d] = "exit" /\ To(d, "attrs") /\ Has(d, "attrs")
      /\ \A c : (Has(d, c)' <=> Has(d, c) /\ c # "attrs") /\ (To(d, c)' <=>
             To(d, c) /\ c # "attrs")
      /\ \A e \in Drivers \ {d} : todo'[e] = todo[e]
  BY <1>1, HasAfterExit DEF RegistryInv
<1>3. OthersKeep(d)
  BY <1>1, <1>2 DEF sysfs_remove_group, OthersKeep, kernelVars
<1>4. Fresh(d) => Fresh(d)'
  BY <1>1, <1>2 DEF sysfs_remove_group, Fresh, kernelVars
<1>5. ~Doomed(d)
  BY <1>2 DEF Doomed
<1>6. Fresh(d) \/ Doomed(d)
  BY <1>2 DEF AloneInv, FreshOrDoomed
<1> QED BY <1>1, <1>2, <1>3, <1>4, <1>5, <1>6, Advance

LEMMA DestroyAlone ==
  ASSUME OneAtATime, RegistryInv, RegistryInv', AloneInv, NEW d \in ChrDrivers,
         device_destroy(d)
  PROVE  AloneInv'
<1> SUFFICES ASSUME mod' = mod PROVE AloneInv'
  <2> SUFFICES ASSUME mod' # mod PROVE AloneInv'
    OBVIOUS
  <2>1. Call(d, "exit", "device") /\ Crashes(d)
    BY DEF device_destroy
  <2>2. /\ UNCHANGED <<ptr, failed, pdata, region, cdevs, class, misc, attrs>>
        /\ node' \in {node, NoOne} /\ drvdata' \subseteq drvdata
    BY DEF device_destroy
  <2> QED BY <2>1, <2>2, CrashAlone
<1>1. d \in Drivers /\ Call(d, "exit", "device") /\ mod' = mod
  BY DEF device_destroy, ChrDrivers
<1>2. /\ mod[d] = "exit" /\ To(d, "device") /\ Has(d, "device")
      /\ \A c : (Has(d, c)' <=> Has(d, c) /\ c # "device") /\ (To(d, c)' <=>
             To(d, c) /\ c # "device")
      /\ \A e \in Drivers \ {d} : todo'[e] = todo[e]
  BY <1>1, HasAfterExit DEF RegistryInv
<1>3. OthersKeep(d)
  BY <1>1, <1>2 DEF device_destroy, OthersKeep
<1>4. Fresh(d) => Fresh(d)'
  <2> SUFFICES ASSUME Fresh(d) PROVE Fresh(d)'
    OBVIOUS
  <2>1. node' = NoOne
    BY <1>2 DEF device_destroy, Fresh
  <2> QED BY <1>1, <1>2, <2>1 DEF device_destroy, Fresh
<1>5. ~Doomed(d)
  BY <1>2 DEF Doomed
<1>6. Fresh(d) \/ Doomed(d)
  BY <1>2 DEF AloneInv, FreshOrDoomed
<1> QED BY <1>1, <1>2, <1>3, <1>4, <1>5, <1>6, Advance

LEMMA ClassDestroyAlone ==
  ASSUME OneAtATime, RegistryInv, RegistryInv', AloneInv, NEW d \in ChrDrivers, class_destroy(d)
  PROVE  AloneInv'
<1>1. d \in Drivers /\ Call(d, "exit", "class") /\ mod' = mod
  BY DEF class_destroy, ChrDrivers
<1>2. /\ mod[d] = "exit" /\ To(d, "class") /\ Has(d, "class")
      /\ \A c : (Has(d, c)' <=> Has(d, c) /\ c # "class") /\ (To(d, c)' <=>
             To(d, c) /\ c # "class")
      /\ \A e \in Drivers \ {d} : todo'[e] = todo[e]
  BY <1>1, HasAfterExit DEF RegistryInv
<1>3. OthersKeep(d)
  BY <1>1, <1>2, ClassNames DEF class_destroy, OthersKeep, RegistryInv, KernelOK
<1>4. Fresh(d) => Fresh(d)'
  <2> SUFFICES ASSUME Fresh(d) PROVE Fresh(d)'
    OBVIOUS
  <2>1. ClassName(d) \in {"chardev0", "sleepy"} /\ ClassName(d)' = ClassName(d)
    BY <1>1, ClassNames DEF ClassName
  <2>2. \A c \in {"chardev0", "sleepy"} : class'[c] = NoOne
    BY <1>2, <2>1 DEF class_destroy, Fresh, RegistryInv, KernelOK
  <2> QED BY <1>1, <1>2, <2>1, <2>2 DEF class_destroy, Fresh
<1>5. ~Doomed(d)
  BY <1>2 DEF Doomed
<1>6. Fresh(d) \/ Doomed(d)
  BY <1>2 DEF AloneInv, FreshOrDoomed
<1> QED BY <1>1, <1>2, <1>3, <1>4, <1>5, <1>6, Advance

LEMMA CdevDelAlone ==
  ASSUME OneAtATime, RegistryInv, RegistryInv', AloneInv, NEW d \in ChrDrivers, cdev_del(d)
  PROVE  AloneInv'
<1>1. d \in Drivers /\ Call(d, "exit", "cdev") /\ mod' = mod
  BY DEF cdev_del, ChrDrivers
<1>2. /\ mod[d] = "exit" /\ To(d, "cdev") /\ Has(d, "cdev")
      /\ \A c : (Has(d, c)' <=> Has(d, c) /\ c # "cdev") /\ (To(d, c)' <=>
             To(d, c) /\ c # "cdev")
      /\ \A e \in Drivers \ {d} : todo'[e] = todo[e]
  BY <1>1, HasAfterExit DEF RegistryInv
<1>3. OthersKeep(d)
  <2>1. PICK k \in 1..Len(cdevs) : cdevs' = RemoveAt(cdevs, k)
    BY DEF cdev_del
  <2>2. cdevs \in Seq(Drivers)
    BY DEF RegistryInv, KernelOK
  <2>3. /\ Len(cdevs') = Len(cdevs) - 1
        /\ \A j \in 1..Len(cdevs) - 1 : cdevs'[j] = IF j < k THEN cdevs[j] ELSE cdevs[j + 1]
    BY <2>1, <2>2, RemoveAtSeq
  <2>4. \A e \in Drivers \ {d} : Contains(cdevs', e) => Contains(cdevs, e)
    BY <2>2, <2>3 DEF Contains
  <2> QED BY <1>1, <1>2, <2>4 DEF cdev_del, OthersKeep
<1>4. Fresh(d) => Fresh(d)'
  <2> SUFFICES ASSUME Fresh(d) PROVE Fresh(d)'
    OBVIOUS
  <2>1. PICK k \in 1..Len(cdevs) : cdevs' = RemoveAt(cdevs, k)
    BY DEF cdev_del
  <2>2. cdevs \in Seq(Drivers) /\ Len(cdevs) = 1
    BY <1>1, <1>2 DEF Fresh
  <2>3. cdevs' \in Seq(Drivers) /\ Len(cdevs') = Len(cdevs) - 1
    BY <2>1, <2>2, RemoveAtSeq
  <2>4. cdevs' = <<>>
    BY <2>2, <2>3
  <2> QED BY <1>1, <1>2, <2>4 DEF cdev_del, Fresh
<1>5. ~Doomed(d)
  BY <1>2 DEF Doomed
<1>6. Fresh(d) \/ Doomed(d)
  BY <1>2 DEF AloneInv, FreshOrDoomed
<1> QED BY <1>1, <1>2, <1>3, <1>4, <1>5, <1>6, Advance

LEMMA UnregisterAlone ==
  ASSUME OneAtATime, RegistryInv, RegistryInv', AloneInv, NEW d \in ChrDrivers,
         unregister_chrdev_region(d)
  PROVE  AloneInv'
<1>1. d \in Drivers /\ Call(d, "exit", "region") /\ mod' = mod
  BY DEF unregister_chrdev_region, ChrDrivers
<1>2. /\ mod[d] = "exit" /\ To(d, "region") /\ Has(d, "region")
      /\ \A c : (Has(d, c)' <=> Has(d, c) /\ c # "region") /\ (To(d, c)' <=>
             To(d, c) /\ c # "region")
      /\ \A e \in Drivers \ {d} : todo'[e] = todo[e]
  BY <1>1, HasAfterExit DEF RegistryInv
<1>3. OthersKeep(d)
  BY <1>1, <1>2 DEF unregister_chrdev_region, OthersKeep
<1>4. Fresh(d) => Fresh(d)'
  BY <1>1, <1>2 DEF unregister_chrdev_region, Fresh
<1>5. ~Doomed(d)
  BY <1>2 DEF Doomed
<1>6. Fresh(d) \/ Doomed(d)
  BY <1>2 DEF AloneInv, FreshOrDoomed
<1> QED BY <1>1, <1>2, <1>3, <1>4, <1>5, <1>6, Advance

LEMMA KfreeAlone ==
  ASSUME OneAtATime, RegistryInv, RegistryInv', AloneInv, NEW d \in ChrDrivers, kfree_pdata(d)
  PROVE  AloneInv'
<1>1. d \in Drivers /\ Call(d, "exit", "pdata") /\ mod' = mod
  BY DEF kfree_pdata, ChrDrivers
<1>2. /\ mod[d] = "exit" /\ To(d, "pdata") /\ Has(d, "pdata")
      /\ \A c : (Has(d, c)' <=> Has(d, c) /\ c # "pdata") /\ (To(d, c)' <=>
             To(d, c) /\ c # "pdata")
      /\ \A e \in Drivers \ {d} : todo'[e] = todo[e]
  BY <1>1, HasAfterExit DEF RegistryInv
<1>3. OthersKeep(d)
  BY <1>1, <1>2 DEF kfree_pdata, OthersKeep, kernelVars
<1>4. Fresh(d) => Fresh(d)'
  BY <1>1, <1>2 DEF kfree_pdata, Fresh, kernelVars
<1>5. ~Doomed(d)
  BY <1>2 DEF Doomed
<1>6. Fresh(d) \/ Doomed(d)
  BY <1>2 DEF AloneInv, FreshOrDoomed
<1> QED BY <1>1, <1>2, <1>3, <1>4, <1>5, <1>6, Advance

LEMMA AttrsAlone ==
  ASSUME OneAtATime, RegistryInv, RegistryInv', AloneInv, NEW d \in ChrDrivers, create_attrs(d)
  PROVE  AloneInv'
<1>1. d \in Drivers /\ d \notin misc /\ mod[d] = "init" /\ todo[d] # <<>>
        /\ Call(d, "init", "attrs")
  BY DEF create_attrs, Call, ChrDrivers, RegistryInv, KernelOK
<1>2. Fresh(d) \/ Doomed(d)
  BY <1>1 DEF AloneInv, FreshOrDoomed
<1>3. CASE "dev" \in ptr[d]
  <2>1. mod' = mod /\ attrs' = attrs \cup {d} /\ failed' = failed \ {d}
    BY <1>1, <1>3 DEF create_attrs, HasDev
  <2>2. /\ \A c : (Has(d, c)' <=> Has(d, c) \/ c = "attrs")
        /\ \A e \in Drivers \ {d} : todo'[e] = todo[e]
    BY <1>1, <2>1, HasAfterInit
  <2>3. OthersKeep(d)
    BY <1>1, <2>1, <2>2 DEF create_attrs, OthersKeep
  <2>4. Fresh(d)'
    BY <1>1, <1>2, <1>3, <2>1, <2>2 DEF create_attrs, Fresh, Doomed
  <2> QED BY <1>1, <2>1, <2>3, <2>4, Advance
<1>4. CASE "dev" \notin ptr[d]
  <2>1. Crashes(d) /\ UNCHANGED <<attrs, failed>>
    BY <1>1, <1>4 DEF create_attrs, HasDev
  <2> QED BY <1>1, <2>1, CrashAlone DEF create_attrs
<1> QED BY <1>3, <1>4

LEMMA AttrsFailAlone ==
  ASSUME OneAtATime, RegistryInv, RegistryInv', AloneInv, NEW d \in ChrDrivers,
         create_attrs_fails(d)
  PROVE  AloneInv'
<1>1. /\ d \in Drivers /\ Call(d, "init", "attrs") /\ mod' = mod /\ "dev" \in ptr[d]
      /\ failed' = failed \cup {d} /\ UNCHANGED <<ptr, pdata, kernelVars>>
  BY DEF create_attrs_fails, HasDev, Call, ChrDrivers, RegistryInv, KernelOK
<1>2. /\ mod[d] = "init" /\ To(d, "attrs")
      /\ \A c : (Has(d, c)' <=> Has(d, c) \/ c = "attrs")
      /\ \A e \in Drivers \ {d} : todo'[e] = todo[e]
      /\ \A c \in Calls : c # "attrs" /\ InitOrder[c] <= InitOrder["attrs"] =>
             ~To(d, c) /\ Has(d, c)
  BY <1>1, HasAfterInit
<1>3. OthersKeep(d)
  BY <1>1, <1>2 DEF OthersKeep, kernelVars
<1>4. Fresh(d)
  BY <1>1, <1>2 DEF AloneInv, FreshOrDoomed, Doomed
<1>5. d \in WithAttrs
  BY <1>1, <1>2 DEF RegistryInv, OrderInv
<1>6. ClassName(d) = "chardev0" /\ Has(d, "region") /\ Has(d, "class") /\ Has(d, "device")
  BY <1>2, <1>5, ClassNames, OrderFacts DEF Calls
<1>7. {"my_class", "dev"} \subseteq ptr[d]
  BY <1>1, <1>4 DEF Fresh
<1>8. Fresh(d)'
  BY <1>1, <1>2, <1>4, <1>6, <1>7 DEF Fresh, kernelVars, ClassName
<1> QED BY <1>1, <1>2, <1>3, <1>8, Advance

LEMMA DeactivateAlone ==
  ASSUME OneAtATime, RegistryInv, RegistryInv', AloneInv, NEW d \in ChrDrivers,
         deactivate_attrs(d)
  PROVE  AloneInv'
<1>1. /\ d \in Drivers /\ mod[d] = "exit" /\ attrs' = attrs \ {d}
      /\ UNCHANGED <<loaderVars, region, cdevs, class, node, misc, drvdata>>
      /\ \A c : (Has(d, c)' <=> Has(d, c))
  BY SameHas DEF deactivate_attrs, ChrDrivers, loaderVars
<1>2. OthersKeep(d)
  BY <1>1 DEF OthersKeep, loaderVars
<1>3. Fresh(d)
  BY <1>1 DEF AloneInv, FreshOrDoomed, Doomed
<1>4. Fresh(d)'
  BY <1>1, <1>3 DEF Fresh, loaderVars, ClassName
<1> QED BY <1>1, <1>2, <1>4, Advance DEF loaderVars

LEMMA InsmodAlone ==
  ASSUME OneAtATime, RegistryInv, RegistryInv', AloneInv, NEW d \in ChrDrivers, insmod(d)
  PROVE  AloneInv'
<1> DEFINE s == InitCalls(d)
<1>1. /\ d \in Drivers /\ d # "my_misc" /\ \A e \in Drivers : mod[e] = "unloaded"
      /\ mod' = [mod EXCEPT ![d] = "init"] /\ todo' = [todo EXCEPT ![d] = s]
      /\ ptr' = [ptr EXCEPT ![d] = {}] /\ failed' = failed \ {d}
      /\ UNCHANGED <<pdata, kernelVars>>
  BY DEF insmod, ChrDrivers
<1>2. /\ \A c \in {"region", "cdev", "class", "device"} : \E k \in 1..Len(s) : s[k] = c
      /\ d # "sleepy" => \E k \in 1..Len(s) : s[k] = "pdata"
  BY <1>1, InitToDo
<1> HIDE DEF s
<1>3. /\ mod'[d] = "init" /\ \A e \in Drivers \ {d} : mod'[e] = mod[e]
      /\ todo'[d] = s /\ \A e \in Drivers \ {d} : todo'[e] = todo[e]
      /\ ptr'[d] = {} /\ \A e \in Drivers \ {d} : ptr'[e] = ptr[e]
  BY <1>1 DEF RegistryInv, LoaderOK
<1>4. /\ To(d, "region")' /\ ~Has(d, "region")' /\ ~Has(d, "cdev")'
      /\ ~Has(d, "class")' /\ ~Has(d, "device")'
      /\ d # "sleepy" => ~Has(d, "pdata")'
  BY <1>2, <1>3 DEF To, Has
<1>5. OthersKeep(d)
  BY <1>1, <1>3 DEF OthersKeep, kernelVars
<1>6. Free \/ Taken
  BY <1>1 DEF AloneInv, FreeOrTaken, ChrDrivers
<1>7. CASE Free
  <2>1. d \notin failed /\ failed' \cap ChrDrivers = {}
    BY <1>1, <1>7 DEF Free
  <2>2. d \notin pdata
    BY <1>1, <2>1 DEF AloneInv, NothingLeftBehind
  <2>3. Fresh(d)'
    BY <1>1, <1>3, <1>4, <1>7, <2>1, <2>2 DEF Free, Fresh, kernelVars
  <2> QED BY <1>1, <1>3, <1>5, <2>3, Advance
<1>8. CASE Taken
  <2>1. Doomed(d)'
    BY <1>1, <1>3, <1>4, <1>8 DEF Doomed, Taken, kernelVars
  <2> QED BY <1>1, <1>3, <1>5, <2>1, Advance
<1> QED BY <1>6, <1>7, <1>8

LEMMA RmmodAlone ==
  ASSUME OneAtATime, RegistryInv, RegistryInv', AloneInv, NEW d \in ChrDrivers, rmmod(d)
  PROVE  AloneInv'
<1> DEFINE s == ExitCalls(d)
<1>1. /\ d \in Drivers /\ d # "my_misc" /\ mod[d] = "live"
      /\ mod' = [mod EXCEPT ![d] = "exit"] /\ todo' = [todo EXCEPT ![d] = s]
      /\ UNCHANGED <<failed, ptr, pdata, kernelVars>>
  BY DEF rmmod, ChrDrivers
<1>2. /\ \A c \in {"region", "cdev", "class", "device"} : \E k \in 1..Len(s) : s[k] = c
      /\ d # "sleepy" => \E k \in 1..Len(s) : s[k] = "pdata"
  BY <1>1, ExitToDo
<1> HIDE DEF s
<1>3. /\ mod'[d] = "exit" /\ \A e \in Drivers \ {d} : mod'[e] = mod[e]
      /\ todo'[d] = s /\ \A e \in Drivers \ {d} : todo'[e] = todo[e]
  BY <1>1 DEF RegistryInv, LoaderOK
<1>4. /\ Has(d, "region")' /\ Has(d, "cdev")' /\ Has(d, "class")' /\ Has(d, "device")'
      /\ d # "sleepy" => Has(d, "pdata")'
      /\ Has(d, "region") /\ Has(d, "cdev") /\ Has(d, "class") /\ Has(d, "device")
  BY <1>1, <1>2, <1>3 DEF To, Has
<1>5. OthersKeep(d)
  BY <1>1, <1>3 DEF OthersKeep, kernelVars
<1>6. Fresh(d) /\ d \notin failed /\ (d \in pdata => d # "sleepy")
  BY <1>1 DEF AloneInv, FreshOrDoomed, Doomed, RegistryInv, DeviceInv, LoaderOK
<1>7. Fresh(d)'
  BY <1>1, <1>3, <1>4, <1>6 DEF Fresh, kernelVars, ClassName
<1> QED BY <1>1, <1>3, <1>5, <1>7, Advance

\* A module comes up, or has failed and is dropped with what it has registered.
LEMMA InitReturnAlone ==
  ASSUME OneAtATime, RegistryInv, RegistryInv', AloneInv, NEW d \in ChrDrivers, init_return(d)
  PROVE  AloneInv'
<1>1. /\ d \in Drivers /\ d # NoOne /\ mod[d] = "init" /\ todo[d] = <<>> /\ \A c : ~To(d, c)
      /\ UNCHANGED <<todo, failed, pdata, kernelVars>>
  BY NothingToDo, DriversAssumption DEF init_return, ChrDrivers
<1>2. /\ mod'[d] = IF d \in failed THEN "unloaded" ELSE "live"
      /\ \A e \in Drivers \ {d} : mod'[e] = mod[e] /\ ptr'[e] = ptr[e]
      /\ mod'[d] = "live" => ptr'[d] = ptr[d]
  BY <1>1 DEF init_return, RegistryInv, LoaderOK
<1>3. OthersKeep(d)
  BY <1>1, <1>2 DEF OthersKeep, kernelVars
<1>4. Fresh(d) \/ Doomed(d)
  BY <1>1 DEF AloneInv, FreshOrDoomed
<1>5. \A c : Has(d, c)
  BY <1>1 DEF Has
<1>6. CASE d \notin failed
  <2>1. mod'[d] = "live" /\ \A c : Has(d, c)'
    BY <1>2, <1>6 DEF Has
  <2>2. Fresh(d)
    BY <1>1, <1>4, <1>6 DEF Doomed
  <2>3. Fresh(d)'
    BY <1>1, <1>2, <1>5, <1>6, <2>1, <2>2 DEF Fresh, kernelVars, ClassName
  <2> QED BY <1>1, <1>3, <2>1, <2>3, Advance
<1>7. CASE d \in failed
  <2>1. Taken
    BY <1>1, <1>4, <1>5, <1>7 DEF Fresh, Doomed, Taken
  <2>2. \A e \in Drivers : mod'[e] = "unloaded"
    BY <1>1, <1>2, <1>7, OnlyLoaded
  <2>3. FreshOrDoomed' /\ FreeOrTaken'
    BY <1>1, <2>1, <2>2 DEF FreshOrDoomed, FreeOrTaken, Taken, ChrDrivers, kernelVars
  <2>4. MiscApart'
    BY <1>1, <2>2 DEF AloneInv, MiscApart, RegistryInv, KernelOK, kernelVars
  <2>5. NothingLeftBehind'
    BY <1>1, <1>3, <1>7, OthersLeaveNothing
  <2> QED BY <2>3, <2>4, <2>5 DEF AloneInv
<1> QED BY <1>6, <1>7

\* A module is gone, and with it all that it had.
LEMMA ExitReturnAlone ==
  ASSUME OneAtATime, RegistryInv, RegistryInv', AloneInv, NEW d \in ChrDrivers, exit_return(d)
  PROVE  AloneInv'
<1>1. /\ d \in Drivers /\ d # NoOne /\ mod[d] = "exit" /\ todo[d] = <<>> /\ \A c : ~To(d, c)
      /\ UNCHANGED <<todo, failed, pdata, kernelVars>>
  BY NothingToDo, DriversAssumption DEF exit_return, ChrDrivers
<1>2. mod'[d] = "unloaded" /\ \A e \in Drivers \ {d} : mod'[e] = mod[e]
  BY <1>1 DEF exit_return, RegistryInv, LoaderOK
<1>3. \A e \in Drivers : mod'[e] = "unloaded"
  BY <1>1, <1>2, OnlyLoaded
<1>4. Fresh(d) /\ d \notin failed
  BY <1>1 DEF AloneInv, FreshOrDoomed, Doomed, RegistryInv, DeviceInv
<1>5. \A c : ~Has(d, c)
  BY <1>1 DEF Has
<1>6. Free /\ d \notin pdata
  BY <1>4, <1>5 DEF Fresh, Free
<1>7. FreshOrDoomed' /\ FreeOrTaken'
  BY <1>1, <1>3, <1>6 DEF FreshOrDoomed, FreeOrTaken, Free, ChrDrivers, kernelVars
<1>8. MiscApart'
  BY <1>1, <1>3 DEF AloneInv, MiscApart, RegistryInv, KernelOK, kernelVars
<1>9. NothingLeftBehind'
  <2> SUFFICES ASSUME NEW e \in Drivers, e \notin failed'
               PROVE  ~Registered(e)' /\ e \notin pdata' \ {"my_misc"}
    BY DEF NothingLeftBehind
  <2>1. CASE e = d
    <3>1. d \notin misc \cup attrs \cup drvdata
      BY <1>1, <1>4 DEF RegistryInv, KernelOK, AttrInv, ChrDrivers
    <3>2. ~Contains(cdevs, d)
      BY <1>6 DEF Free, Contains
    <3> QED BY <1>1, <1>6, <2>1, <3>1, <3>2, ClassNames DEF Free, Registered, kernelVars
  <2>2. CASE e # d
    <3>1. ~Registered(e) /\ e \notin pdata \ {"my_misc"}
      BY <1>1, <2>2, OnlyLoaded DEF AloneInv, NothingLeftBehind
    <3> QED BY <1>1, <3>1 DEF Registered, kernelVars
  <2> QED BY <2>1, <2>2
<1> QED BY <1>7, <1>8, <1>9 DEF AloneInv

\* What is called is on the list.
LEMMA CallIsToDo ==
  ASSUME RegistryInv, NEW d \in Drivers, NEW phase, NEW c, Call(d, phase, c)
  PROVE  To(d, c)
<1>1. todo[d] \in Seq(Calls) /\ todo[d] # <<>> /\ Head(todo[d]) = c
  BY DEF Call, RegistryInv, LoaderOK
<1>2. Len(todo[d]) >= 1 /\ todo[d][1] = c
  BY <1>1
<1> QED BY <1>1, <1>2 DEF To

\* The steps of the misc driver.
LEMMA MiscInitAlone ==
  ASSUME RegistryInv, RegistryInv', AloneInv, NEW d \in Drivers, d = "my_misc",
         insmod(d) \/ misc_register(d) \/ create_attrs(d) \/ create_attrs_fails(d)
           \/ kzalloc_pdata(d) \/ kzalloc_pdata_fails(d) \/ dev_set_drvdata(d)
  PROVE  AloneInv'
<1>1. mod'[d] \in {"init", "dead"} /\ \A e \in Drivers \ {d} : mod'[e] = mod[e]
  BY DEF insmod, misc_register, create_attrs, create_attrs_fails, kzalloc_pdata,
    kzalloc_pdata_fails, GetsError, Crashes, dev_set_drvdata,
    Call, RegistryInv, LoaderOK
<1>2. \A e \in Drivers \ {d} : todo'[e] = todo[e] /\ ptr'[e] = ptr[e]
  BY DEF insmod, misc_register, create_attrs, create_attrs_fails, GiveUp, kzalloc_pdata,
    kzalloc_pdata_fails, GetsError, Crashes, dev_set_drvdata, Call, RegistryInv, LoaderOK
<1>3. /\ UNCHANGED <<region, node, class, cdevs>> /\ failed' \ {d} = failed \ {d}
      /\ misc' \subseteq misc \cup {d} /\ attrs' \subseteq attrs \cup {d}
      /\ drvdata' \subseteq drvdata \cup {d} /\ pdata' \subseteq pdata \cup {d}
  BY DEF insmod, misc_register, create_attrs, create_attrs_fails, GiveUp, kzalloc_pdata,
    kzalloc_pdata_fails, GetsError, Crashes, dev_set_drvdata, kernelVars
<1>4. OthersKeep(d)
  BY <1>1, <1>2, <1>3 DEF OthersKeep
<1> QED BY <1>1, <1>3, <1>4, AdvanceMisc

LEMMA MiscExitAlone ==
  ASSUME RegistryInv, RegistryInv', AloneInv, NEW d \in Drivers, d = "my_misc",
         rmmod(d) \/ deactivate_attrs(d) \/ sysfs_remove_group(d) \/ misc_deregister(d)
  PROVE  AloneInv'
<1>1. mod'[d] \in {"exit", "dead"} /\ \A e \in Drivers \ {d} : mod'[e] = mod[e]
  BY DEF rmmod, deactivate_attrs, sysfs_remove_group, misc_deregister, Call, Crashes,
    loaderVars, RegistryInv, LoaderOK
<1>2. \A e \in Drivers \ {d} : todo'[e] = todo[e] /\ ptr'[e] = ptr[e]
  BY DEF rmmod, deactivate_attrs, sysfs_remove_group, misc_deregister, Call, loaderVars,
    RegistryInv, LoaderOK
<1>3. /\ UNCHANGED <<region, node, class, cdevs, failed, pdata>>
      /\ misc' \subseteq misc /\ attrs' \subseteq attrs /\ drvdata' \subseteq drvdata
  BY DEF rmmod, deactivate_attrs, sysfs_remove_group, misc_deregister, loaderVars, kernelVars
<1>4. OthersKeep(d)
  BY <1>1, <1>2, <1>3 DEF OthersKeep
<1>5. d \in misc' /\ mod'[d] = "exit" => To(d, "misc")'
  <2>1. CASE rmmod(d)
    <3> DEFINE s == ExitCalls(d)
    <3>1. todo'[d] = s
      BY <2>1 DEF rmmod, RegistryInv, LoaderOK
    <3>2. \E k \in 1..Len(s) : s[k] = "misc"
      BY ExitToDo
    <3> HIDE DEF s
    <3> QED BY <3>1, <3>2 DEF To
  <2>2. CASE deactivate_attrs(d)
    <3>1. mod[d] = "exit" /\ misc' = misc /\ (To(d, "misc")' <=> To(d, "misc"))
      BY <2>2, SameToDo DEF deactivate_attrs, loaderVars
    <3> QED BY <3>1 DEF AloneInv, MiscApart
  <2>3. CASE sysfs_remove_group(d)
    <3>1. Call(d, "exit", "attrs") /\ (mod' = mod \/ Crashes(d)) /\ misc' = misc
      BY <2>3 DEF sysfs_remove_group, kernelVars
    <3>2. CASE mod' = mod
      <4>1. mod[d] = "exit" /\ (To(d, "misc")' <=> To(d, "misc"))
        BY <3>1, <3>2, HasAfterExit
      <4> QED BY <3>1, <4>1 DEF AloneInv, MiscApart
    <3>3. CASE Crashes(d)
      BY <3>3 DEF Crashes, RegistryInv, LoaderOK
    <3> QED BY <3>1, <3>2, <3>3
  <2>4. CASE misc_deregister(d)
    BY <2>4 DEF misc_deregister
  <2> QED BY <2>1, <2>2, <2>3, <2>4
<1> QED BY <1>1, <1>3, <1>4, <1>5, AdvanceMisc

LEMMA MiscReturnAlone ==
  ASSUME RegistryInv, RegistryInv', AloneInv, NEW d \in Drivers, d = "my_misc",
         init_return(d) \/ exit_return(d)
  PROVE  AloneInv'
<1>1. /\ todo[d] = <<>> /\ \A c : ~To(d, c)
      /\ UNCHANGED <<todo, failed, pdata, kernelVars>>
  BY NothingToDo DEF init_return, exit_return
<1>2. /\ mod'[d] # "exit"
      /\ \A e \in Drivers \ {d} : mod'[e] = mod[e] /\ ptr'[e] = ptr[e]
  BY DEF init_return, exit_return, RegistryInv, LoaderOK
<1>3. OthersKeep(d)
  BY <1>1, <1>2 DEF OthersKeep, kernelVars
<1>4. mod'[d] # "unloaded" \/ d \in failed' \/ ~(d \in misc' \cup attrs' \cup drvdata')
  <2>1. CASE init_return(d)
    BY <2>1 DEF init_return, RegistryInv, LoaderOK
  <2>2. CASE exit_return(d)
    BY <1>1, <2>2 DEF exit_return, kernelVars, AloneInv, MiscApart, RegistryInv, AttrInv,
      KernelOK
  <2> QED BY <2>1, <2>2
<1> QED BY <1>1, <1>2, <1>3, <1>4, AdvanceMisc DEF kernelVars

LEMMA DriverAlone ==
  ASSUME OneAtATime, "region" \notin MayFail, RegistryInv, RegistryInv', AloneInv,
         NEW d \in Drivers,
         insmod(d) \/ rmmod(d) \/ ModuleStep(d)
  PROVE  AloneInv'
<1>1. CASE d = "my_misc"
  <2>1. /\ \A c \in {"region", "cdev", "class", "device"} : ~To(d, c)
        /\ mod[d] = "exit" => ~To(d, "pdata")
    BY <1>1 DEF RegistryInv, OrderInv
  <2>2. /\ ~register_chrdev_region(d) /\ ~cdev_add(d) /\ ~class_create(d) /\ ~device_create(d)
        /\ ~device_destroy(d) /\ ~class_destroy(d) /\ ~cdev_del(d)
             /\ ~unregister_chrdev_region(d)
    BY <2>1, CallIsToDo DEF register_chrdev_region, cdev_add, class_create, device_create,
      device_destroy, class_destroy, cdev_del, unregister_chrdev_region
  <2>3. ~kfree_pdata(d)
    BY <2>1, CallIsToDo DEF kfree_pdata, Call
  <2> QED BY <1>1, <2>2, <2>3, MiscInitAlone, MiscExitAlone, MiscReturnAlone DEF ModuleStep
<1>2. CASE d # "my_misc"
  <2>1. d \in ChrDrivers
    BY <1>2 DEF ChrDrivers
  <2>2. ~To(d, "misc") /\ ~misc_register(d) /\ ~misc_deregister(d)
    <3>1. ~To(d, "misc")
      BY <1>2 DEF RegistryInv, OrderInv
    <3>2. ~misc_deregister(d)
      BY <3>1, CallIsToDo DEF misc_deregister
    <3>3. ~misc_register(d)
      <4> SUFFICES ASSUME misc_register(d) PROVE FALSE
        OBVIOUS
      <4>1. todo[d] \in Seq(Calls) /\ todo[d] # <<>> /\ Head(todo[d]) = "misc"
        BY DEF misc_register, RegistryInv, LoaderOK
      <4>2. Len(todo[d]) >= 1 /\ todo[d][1] = "misc"
        BY <4>1
      <4> QED BY <3>1, <4>1, <4>2 DEF To
    <3> QED BY <3>1, <3>2, <3>3
  <2>3. CASE insmod(d) \/ rmmod(d) \/ init_return(d) \/ exit_return(d)
    BY <2>1, <2>3, InsmodAlone, RmmodAlone, InitReturnAlone, ExitReturnAlone
  <2>4. CASE register_chrdev_region(d) \/ cdev_add(d) \/ class_create(d) \/ device_create(d)
    BY <2>1, <2>4, RegionAlone, CdevAlone, ClassAlone, DeviceAlone
  <2>5. CASE create_attrs(d) \/ create_attrs_fails(d) \/ kzalloc_pdata(d)
          \/ kzalloc_pdata_fails(d) \/ dev_set_drvdata(d)
    BY <2>1, <2>5, AttrsAlone, AttrsFailAlone, PdataAlone, PdataFailsAlone, DrvdataAlone
  <2>6. CASE deactivate_attrs(d) \/ sysfs_remove_group(d) \/ device_destroy(d)
          \/ class_destroy(d)
    BY <2>1, <2>6, DeactivateAlone, GroupAlone, DestroyAlone, ClassDestroyAlone
  <2>7. CASE cdev_del(d) \/ unregister_chrdev_region(d) \/ kfree_pdata(d)
    BY <2>1, <2>7, CdevDelAlone, UnregisterAlone, KfreeAlone
  <2> QED BY <2>2, <2>3, <2>4, <2>5, <2>6, <2>7 DEF ModuleStep
<1> QED BY <1>1, <1>2

LEMMA AloneStep ==
  ASSUME OneAtATime, "region" \notin MayFail, RegistryInv, AloneInv, [Next]_vars
  PROVE  AloneInv'
<1>0. RegistryInv'
  BY RegistryStep
<1>1. ASSUME NEW d \in Drivers, insmod(d) \/ rmmod(d) \/ ModuleStep(d) PROVE AloneInv'
  BY <1>0, <1>1, DriverAlone
<1>2. ASSUME NEW p \in Proc, my_chrdev_open(p) \/ my_misc_open(p) \/ my_chrdev_release(p)
      PROVE  AloneInv'
  <2>1. UNCHANGED <<loaderVars, kernelVars>>
    BY <1>2 DEF my_chrdev_open, my_misc_open, my_chrdev_release, Opens
  <2> QED BY <2>1, SameRegistry
<1>3. ASSUME NEW p \in Proc, NEW d \in Drivers, UseAttr(p, d) PROVE AloneInv'
  <2>1. CASE d \in drvdata
    <3>1. UNCHANGED <<loaderVars, kernelVars>>
      BY <1>3, <2>1 DEF UseAttr, loaderVars
    <3> QED BY <3>1, SameRegistry
  <2>2. CASE d \notin drvdata
    <3>1. /\ d \in attrs /\ mod' = [mod EXCEPT ![d] = "dead"]
          /\ UNCHANGED <<todo, failed, ptr, pdata, kernelVars>>
      BY <1>3, <2>2 DEF UseAttr, Crashes
    <3>2. mod[d] # "unloaded"
      BY <3>1 DEF RegistryInv, AttrInv, KernelOK
    <3>3. mod'[d] = "dead" /\ \A e \in Drivers \ {d} : mod'[e] = mod[e]
      BY <3>1 DEF RegistryInv, LoaderOK
    <3>4. OthersKeep(d)
      BY <3>1, <3>3 DEF OthersKeep, kernelVars
    <3>5. CASE d = "my_misc"
      BY <1>0, <3>1, <3>3, <3>4, <3>5, AdvanceMisc DEF kernelVars
    <3>6. CASE d # "my_misc"
      BY <1>0, <3>2, <3>3, <3>4, <3>6, Advance DEF ChrDrivers
    <3> QED BY <3>5, <3>6
  <2> QED BY <2>1, <2>2
<1>4. ASSUME NEW p \in Proc, AttrStep(p) PROVE AloneInv'
  BY <1>4, SameRegistry DEF AttrStep
<1>5. CASE UNCHANGED vars
  BY <1>5, SameRegistry DEF vars
<1> QED BY <1>1, <1>2, <1>3, <1>4, <1>5 DEF Next

LEMMA AloneInit == Init => AloneInv
<1> SUFFICES ASSUME Init PROVE AloneInv
  OBVIOUS
<1>1. \A d \in Drivers : mod[d] = "unloaded"
  BY DEF Init
<1>2. FreshOrDoomed /\ FreeOrTaken
  BY <1>1 DEF Init, FreshOrDoomed, FreeOrTaken, Free, ChrDrivers
<1>3. ~\E d : Contains(cdevs, d)
  BY DEF Init, Contains
<1>4. MiscApart
  BY <1>3, DriversAssumption DEF Init, MiscApart
<1>5. NothingLeftBehind
  <2> SUFFICES ASSUME NEW d \in Drivers PROVE ~Registered(d) /\ d \notin pdata
    BY DEF NothingLeftBehind
  <2>1. d # NoOne
    BY DriversAssumption
  <2> QED BY <1>3, <2>1, ClassNames DEF Init, Registered
<1> QED BY <1>2, <1>4, <1>5 DEF AloneInv

LEMMA AloneHolds ==
  ASSUME OneAtATime, "region" \notin MayFail
  PROVE  Spec => []AloneInv
<1>1. Init => RegistryInv /\ AloneInv
  BY RegistryInit, AloneInit
<1>2. RegistryInv /\ AloneInv /\ [Next]_vars => (RegistryInv /\ AloneInv)'
  BY RegistryStep, AloneStep
<1> QED BY <1>1, <1>2, PTL DEF Spec

-----------------------------------------------------------------------------
(* Only an error crashes a module *)

LEMMA CrashInit == Init => CrashInv
<1> SUFFICES ASSUME Init, NEW d \in Drivers PROVE CrashOK(d)
  BY DEF CrashInv
<1>1. mod[d] = "unloaded" /\ attrs = {} /\ ptr[d] = {}
  BY DEF Init
<1> QED BY <1>1 DEF CrashOK, Past

\* What a step of d leaves alone of the others.
LEMMA CrashOthers ==
  ASSUME RegistryInv, CrashInv, NEW d \in Drivers, CrashOK(d)',
         \A e \in Drivers \ {d} : mod'[e] = mod[e] /\ todo'[e] = todo[e] /\ ptr'[e] = ptr[e],
         attrs' \subseteq attrs \cup {d}, drvdata \subseteq drvdata' \cup {d},
         misc \subseteq misc' \cup {d},
         \A c \in {"chardev0", "sleepy"} : class'[c] = class[c] \/ class[c] \in {d, NoOne}
  PROVE  CrashInv'
<1> SUFFICES ASSUME NEW e \in Drivers \ {d} PROVE CrashOK(e)'
  BY DEF CrashInv
<1>1. /\ mod'[e] = mod[e] /\ ptr'[e] = ptr[e] /\ \A c : To(e, c)' <=> To(e, c)
      /\ e \in attrs' => e \in attrs
      /\ e \in drvdata => e \in drvdata'
      /\ e \in misc => e \in misc'
  BY DEF To
<1>2. \A c : Past(e, c)' <=> Past(e, c)
  BY <1>1 DEF Past
<1>3. class[ClassName(e)] = e => class'[ClassName(e)'] = e
  BY ClassNames, DriversAssumption DEF ClassName
<1>4. CrashOK(e)
  BY DEF CrashInv
<1> QED BY <1>1, <1>2, <1>3, <1>4 DEF CrashOK

\* The calls of init that go well, or not so well, but are come back from.
LEMMA CrashInitCall ==
  ASSUME RegistryInv, CrashInv, NEW d \in Drivers, NEW name \in Calls \ {"misc"},
         Call(d, "init", name), mod' = mod,
         \A e \in Drivers \ {d} : ptr'[e] = ptr[e], ptr[d] \subseteq ptr'[d],
         name = "class" => ptr'[d] \cap {"my_class", "error"} # {},
         name = "device" => ptr'[d] \cap {"dev", "error"} # {},
         "my_class" \in ptr'[d] => "my_class" \in ptr[d] \/ class'[ClassName(d)] = d,
         \A c \in {"chardev0", "sleepy"} : class'[c] = class[c] \/ class[c] = NoOne,
         attrs' = attrs \/ (name = "attrs" /\ attrs' = attrs \cup {d}),
         IF name = "drvdata" THEN drvdata' = drvdata \cup {d} ELSE drvdata' = drvdata,
         misc' = misc
  PROVE  CrashInv'
<1>1. /\ mod[d] = "init" /\ mod'[d] = "init"
      /\ To(d, name) /\ \A e \in Drivers \ {d} : todo'[e] = todo[e]
      /\ \A c : To(d, c)' <=> To(d, c) /\ c # name
      /\ \A c \in Calls : To(d, c) /\ c # name => InitOrder[name] < InitOrder[c]
  BY CallInit DEF Call, RegistryInv
<1>2. CrashOK(d)
  BY DEF CrashInv
<1>3. \A c : Past(d, c)' <=> Past(d, c) \/ c = name
  BY <1>1 DEF Past
<1>4. /\ d # "my_misc" /\ Past(d, "class")' => ptr'[d] \cap {"my_class", "error"} # {}
      /\ d # "my_misc" /\ Past(d, "device")' => ptr'[d] \cap {"dev", "error"} # {}
  BY <1>2, <1>3 DEF CrashOK
<1>5. "my_class" \in ptr'[d] => class'[ClassName(d)'] = d
  <2>1. ClassName(d) \in {"chardev0", "sleepy"} /\ ClassName(d)' = ClassName(d) /\ d # NoOne
    BY ClassNames, DriversAssumption DEF ClassName
  <2> QED BY <1>1, <1>2, <2>1 DEF CrashOK
<1>6. To(d, "attrs")' => To(d, "drvdata")'
  <2>1. To(d, "attrs")' => name # "drvdata" /\ To(d, "drvdata")
    BY <1>1, <1>2, OrderFacts DEF CrashOK, Calls
  <2> QED BY <1>1, <2>1
<1>7. d \in attrs' /\ ~To(d, "drvdata")' => d \in drvdata'
  <2>1. name = "attrs" => To(d, "drvdata")'
    BY <1>1, <1>2 DEF CrashOK
  <2> QED BY <1>1, <1>2, <2>1 DEF CrashOK
<1>8. d = "my_misc" => To(d, "misc")' \/ ~To(d, "attrs")' \/ d \in misc'
  BY <1>1, <1>2 DEF CrashOK
<1>9. CrashOK(d)'
  BY <1>1, <1>3, <1>4, <1>5, <1>6, <1>7, <1>8 DEF CrashOK
<1> QED BY <1>1, <1>9, CrashOthers

\* A call of init or exit is not come back from; it has found an error.
LEMMA CrashCall ==
  ASSUME RegistryInv, CrashInv, NEW d \in Drivers, NEW phase, NEW name, Call(d, phase, name),
         Crashes(d), "error" \in ptr'[d],
         \A e \in Drivers \ {d} : ptr'[e] = ptr[e],
         attrs' = attrs, drvdata \subseteq drvdata' \cup {d}, misc' = misc, class' = class
  PROVE  CrashInv'
<1>1. mod'[d] = "dead" /\ \A e \in Drivers \ {d} : mod'[e] = mod[e] /\ todo'[e] = todo[e]
  BY DEF Crashes, Call, RegistryInv, LoaderOK
<1>2. CrashOK(d)'
  BY <1>1 DEF CrashOK, Past
<1> QED BY <1>1, <1>2, CrashOthers

\* The calls of exit that are come back from.
LEMMA CrashExitCall ==
  ASSUME RegistryInv, CrashInv, NEW d \in Drivers, NEW name \in Calls, Call(d, "exit", name),
         mod' = mod, ptr' = ptr, attrs' = attrs, drvdata \subseteq drvdata' \cup {d},
         misc \subseteq misc' \cup {d},
         \A c \in {"chardev0", "sleepy"} :
           class'[c] = class[c] \/ (name = "class" /\ class[c] = d)
  PROVE  CrashInv'
<1>1. /\ mod[d] = "exit" /\ mod'[d] = "exit"
      /\ To(d, name) /\ \A e \in Drivers \ {d} : todo'[e] = todo[e]
      /\ \A c : To(d, c)' <=> To(d, c) /\ c # name
      /\ \A c \in Calls : To(d, c) /\ c # name => ExitOrder[name] < ExitOrder[c]
  BY CallExit DEF Call, RegistryInv
<1>2. CrashOK(d)
  BY DEF CrashInv
<1>3. \A c : Past(d, c)' <=> Past(d, c)
  BY <1>1 DEF Past
<1>4. "my_class" \in ptr[d] /\ To(d, "class")' => class'[ClassName(d)'] = d
  <2>1. ClassName(d) \in {"chardev0", "sleepy"} /\ ClassName(d)' = ClassName(d)
    BY ClassNames DEF ClassName
  <2> QED BY <1>1, <1>2, <2>1 DEF CrashOK
<1>5. /\ To(d, "attrs")' => To(d, "device")'
      /\ To(d, "device")' => To(d, "class")'
  BY <1>1, <1>2, OrderFacts DEF CrashOK, Calls
<1>6. CrashOK(d)'
  BY <1>1, <1>2, <1>3, <1>4, <1>5 DEF CrashOK
<1> QED BY <1>1, <1>6, CrashOthers

LEMMA CrashInitStep ==
  ASSUME RegistryInv, CrashInv, NEW d \in Drivers,
         register_chrdev_region(d) \/ cdev_add(d) \/ class_create(d) \/ device_create(d)
  PROVE  CrashInv'
<1>1. ptr \in [Drivers -> SUBSET {"my_class", "dev", "error"}] /\ d \in DOMAIN ptr
  BY DEF RegistryInv, LoaderOK
<1>2. CASE register_chrdev_region(d)
  BY <1>2, CrashInitCall DEF register_chrdev_region, Calls
<1>3. CASE cdev_add(d)
  <2>1. CASE mod' = mod /\ ptr' = ptr
    BY <1>3, <2>1, CrashInitCall DEF cdev_add, Calls
  <2>2. CASE GetsError(d) /\ Crashes(d)
    <3>1. "error" \in ptr'[d] /\ \A e \in Drivers \ {d} : ptr'[e] = ptr[e]
      BY <2>2, ErrorFacts DEF RegistryInv
    <3> QED BY <1>3, <2>2, <3>1, CrashCall DEF cdev_add
  <2> QED BY <1>3, <2>1, <2>2 DEF cdev_add
<1>4. CASE class_create(d)
  <2>1. ClassName(d) \in {"chardev0", "sleepy"} /\ class \in [{"chardev0", "sleepy"} -> Owner]
    BY ClassNames DEF RegistryInv, KernelOK
  <2>2. /\ Call(d, "init", "class") /\ mod' = mod
        /\ UNCHANGED <<misc, attrs, drvdata>>
    BY <1>4 DEF class_create
  <2>3. CASE /\ class[ClassName(d)] = NoOne
             /\ class' = [class EXCEPT ![ClassName(d)] = d]
             /\ ptr' = [ptr EXCEPT ![d] = @ \cup {"my_class"}]
    <3>1. /\ \A e \in Drivers \ {d} : ptr'[e] = ptr[e]
          /\ ptr'[d] = ptr[d] \cup {"my_class"}
      BY <1>1, <2>3
    <3>2. /\ class'[ClassName(d)] = d
          /\ \A c \in {"chardev0", "sleepy"} : class'[c] = class[c] \/ class[c] = NoOne
      BY <2>1, <2>3
    <3> QED BY <2>2, <3>1, <3>2, CrashInitCall DEF Calls
  <2>4. CASE GetsError(d) /\ class' = class
    <3>1. ptr'[d] = ptr[d] \cup {"error"} /\ \A e \in Drivers \ {d} : ptr'[e] = ptr[e]
      BY <2>4, ErrorFacts DEF RegistryInv
    <3> QED BY <2>2, <2>4, <3>1, CrashInitCall DEF Calls
  <2> QED BY <1>4, <2>3, <2>4 DEF class_create
<1>5. CASE device_create(d)
  <2>1. Call(d, "init", "device") /\ UNCHANGED <<mod, class, misc, attrs, drvdata>>
    BY <1>5 DEF device_create
  <2>2. /\ \A e \in Drivers \ {d} : ptr'[e] = ptr[e]
        /\ ptr'[d] = ptr[d] \cup {"dev"} \/ ptr'[d] = ptr[d] \cup {"error"}
    BY <1>1, <1>5 DEF device_create, GetsError
  <2> QED BY <2>1, <2>2, CrashInitCall DEF Calls
<1> QED BY <1>2, <1>3, <1>4, <1>5

LEMMA CrashAttrsStep ==
  ASSUME RegistryInv, CrashInv, NEW d \in Drivers,
         create_attrs(d) \/ kzalloc_pdata(d) \/ kzalloc_pdata_fails(d) \/ dev_set_drvdata(d)
  PROVE  CrashInv'
<1>1. CASE create_attrs(d)
  <2>1. Call(d, "init", "attrs") /\ UNCHANGED <<ptr, class, misc, drvdata>>
    BY <1>1 DEF create_attrs
  <2>2. CASE HasDev(d)
    BY <1>1, <2>1, <2>2, CrashInitCall DEF create_attrs, Calls
  <2>3. CASE ~HasDev(d)
    <3>1. Crashes(d) /\ attrs' = attrs
      BY <1>1, <2>3 DEF create_attrs
    <3>2. /\ mod[d] = "init" /\ To(d, "attrs")
          /\ \A c \in Calls : To(d, c) /\ c # "attrs" => InitOrder["attrs"] < InitOrder[c]
      BY <2>1, <3>1, CallInit DEF Call, Crashes, RegistryInv
    <3>3. ~To(d, "device") /\ ~To(d, "misc")
      BY <3>2, OrderFacts DEF Calls
    <3>4. "error" \in ptr[d]
      BY <2>3, <3>2, <3>3 DEF CrashInv, CrashOK, Past, HasDev
    <3> QED BY <2>1, <3>1, <3>4, CrashCall
  <2> QED BY <2>2, <2>3
<1>2. CASE kzalloc_pdata(d)
  BY <1>2, CrashInitCall DEF kzalloc_pdata, kernelVars, Calls
<1>3. CASE kzalloc_pdata_fails(d)
  <2>1. Call(d, "init", "pdata") /\ Crashes(d) /\ UNCHANGED <<attrs, drvdata, misc, class>>
    BY <1>3 DEF kzalloc_pdata_fails, kernelVars
  <2>2. "error" \in ptr'[d] /\ \A e \in Drivers \ {d} : ptr'[e] = ptr[e]
    BY <1>3, ErrorFacts DEF kzalloc_pdata_fails, RegistryInv
  <2> QED BY <2>1, <2>2, CrashCall
<1>4. CASE dev_set_drvdata(d)
  BY <1>4, CrashInitCall DEF dev_set_drvdata, Calls
<1> QED BY <1>1, <1>2, <1>3, <1>4

\* misc_register, and what goes to an error label.
LEMMA CrashMiscStep ==
  ASSUME RegistryInv, CrashInv, NEW d \in Drivers, misc_register(d) \/ create_attrs_fails(d)
  PROVE  CrashInv'
<1>1. mod[d] = "init" /\ mod' = mod /\ UNCHANGED <<ptr, class, attrs, drvdata>>
  BY DEF misc_register, create_attrs_fails, kernelVars
<1>2. CrashOK(d)
  BY DEF CrashInv
<1>3. CASE create_attrs_fails(d) /\ d # "my_misc"
  <2>1. Call(d, "init", "attrs") /\ misc' = misc
    BY <1>1, <1>3 DEF create_attrs_fails, Call, kernelVars
  <2> QED BY <1>1, <2>1, CrashInitCall DEF Calls
<1>4. CASE /\ misc_register(d) /\ misc' = misc \cup {d}
           /\ todo' = [todo EXCEPT ![d] = Tail(@)]
  <2>1. Call(d, "init", "misc")
    BY <1>4 DEF misc_register, Call
  <2>2. /\ To(d, "misc") /\ \A e \in Drivers \ {d} : todo'[e] = todo[e]
        /\ \A c : To(d, c)' <=> To(d, c) /\ c # "misc"
    BY <1>1, <2>1, CallInit DEF RegistryInv
  <2>3. d = "my_misc"
    BY <2>2 DEF RegistryInv, OrderInv
  <2>4. CrashOK(d)'
    BY <1>1, <1>2, <1>4, <2>2, <2>3 DEF CrashOK, Past, ClassName
  <2> QED BY <1>1, <1>4, <2>2, <2>4, CrashOthers
<1>5. CASE GiveUp(d) /\ misc' = misc /\ d = "my_misc"
  <2>1. /\ todo'[d] = <<>> /\ \A e \in Drivers \ {d} : todo'[e] = todo[e]
        /\ \A c : ~To(d, c)'
    BY <1>1, <1>5, NoneAfterGiveUp DEF GiveUp, RegistryInv
  <2>2. d \notin attrs
    <3>1. todo[d] \in Seq(Calls) /\ todo[d] # <<>> /\ Head(todo[d]) \in {"misc", "attrs"}
      BY <1>5 DEF misc_register, create_attrs_fails, RegistryInv, LoaderOK
    <3>2. To(d, "misc") \/ To(d, "attrs")
      <4>1. Len(todo[d]) >= 1 /\ todo[d][1] \in {"misc", "attrs"}
        BY <3>1
      <4> QED BY <4>1 DEF To
    <3> QED BY <1>1, <3>2 DEF RegistryInv, AttrInv, KernelOK
  <2>3. CrashOK(d)'
    BY <1>1, <1>2, <1>5, <2>1, <2>2 DEF CrashOK, Past, ClassName
  <2> QED BY <1>1, <1>5, <2>1, <2>3, CrashOthers
<1>6. \/ create_attrs_fails(d) /\ d # "my_misc"
      \/ misc_register(d) /\ misc' = misc \cup {d} /\ todo' = [todo EXCEPT ![d] = Tail(@)]
      \/ GiveUp(d) /\ misc' = misc /\ d = "my_misc"
  <2>1. misc_register(d) => d = "my_misc"
    <3> SUFFICES ASSUME misc_register(d) PROVE d = "my_misc"
      OBVIOUS
    <3>1. todo[d] \in Seq(Calls) /\ todo[d] # <<>> /\ Head(todo[d]) = "misc"
      BY DEF misc_register, RegistryInv, LoaderOK
    <3>2. Len(todo[d]) >= 1 /\ todo[d][1] = "misc"
      BY <3>1
    <3> QED BY <3>2 DEF To, RegistryInv, OrderInv
  <2> QED BY <2>1 DEF misc_register, create_attrs_fails, kernelVars
<1> QED BY <1>3, <1>4, <1>5, <1>6

LEMMA CrashExitStep ==
  ASSUME RegistryInv, CrashInv, NEW d \in Drivers,
         sysfs_remove_group(d) \/ device_destroy(d) \/ misc_deregister(d) \/ class_destroy(d)
  PROVE  CrashInv'
<1>1. CrashOK(d) /\ d # NoOne
  BY DriversAssumption DEF CrashInv
<1>2. CASE sysfs_remove_group(d)
  <2>1. /\ Call(d, "exit", "attrs") /\ (mod' = mod \/ Crashes(d))
        /\ UNCHANGED <<ptr, class, misc, attrs, drvdata>>
    BY <1>2 DEF sysfs_remove_group, kernelVars
  <2>2. CASE mod' = mod
    BY <2>1, <2>2, CrashExitCall DEF Calls
  <2>3. CASE Crashes(d)
    <3>1. mod[d] = "exit" /\ To(d, "attrs") /\ To(d, "device")
      BY <1>1, <2>1, <2>3, CallExit DEF Call, Crashes, RegistryInv, CrashOK
    <3>2. d # "my_misc"
      BY <3>1 DEF RegistryInv, OrderInv
    <3>3. ~("dev" \in ptr[d] /\ node = d)
      <4>1. mod' # mod
        BY <2>3, <3>1 DEF Crashes, RegistryInv, LoaderOK
      <4> QED BY <1>2, <4>1 DEF sysfs_remove_group
    <3>4. "error" \in ptr[d]
      BY <1>1, <3>1, <3>2, <3>3 DEF CrashOK, Past, RegistryInv, DeviceInv
    <3> QED BY <2>1, <2>3, <3>4, CrashCall
  <2> QED BY <2>1, <2>2, <2>3
<1>3. CASE device_destroy(d)
  <2>1. /\ Call(d, "exit", "device") /\ (mod' = mod \/ Crashes(d))
        /\ UNCHANGED <<ptr, class, misc, attrs>> /\ drvdata \subseteq drvdata' \cup {d}
    BY <1>3 DEF device_destroy
  <2>2. CASE mod' = mod
    BY <2>1, <2>2, CrashExitCall DEF Calls
  <2>3. CASE Crashes(d)
    <3>1. mod[d] = "exit" /\ To(d, "device") /\ To(d, "class")
      BY <1>1, <2>1, <2>3, CallExit DEF Call, Crashes, RegistryInv, CrashOK
    <3>2. d # "my_misc"
      BY <3>1 DEF RegistryInv, OrderInv
    <3>3. ~("my_class" \in ptr[d] /\ class[ClassName(d)] = d)
      <4>1. mod' # mod
        BY <2>3, <3>1 DEF Crashes, RegistryInv, LoaderOK
      <4> QED BY <1>3, <4>1 DEF device_destroy
    <3>4. "error" \in ptr[d]
      BY <1>1, <3>1, <3>2, <3>3 DEF CrashOK, Past
    <3> QED BY <2>1, <2>3, <3>4, CrashCall
  <2> QED BY <2>1, <2>2, <2>3
<1>4. CASE misc_deregister(d)
  BY <1>4, CrashExitCall DEF misc_deregister, Calls
<1>5. CASE class_destroy(d)
  <2>1. /\ Call(d, "exit", "class") /\ UNCHANGED <<mod, ptr, misc, attrs, drvdata>>
        /\ class' = IF "my_class" \in ptr[d] THEN [class EXCEPT ![ClassName(d)] = NoOne]
                    ELSE class
    BY <1>5 DEF class_destroy
  <2>2. mod[d] = "exit" /\ To(d, "class")
    BY <2>1, CallExit DEF Call, RegistryInv
  <2>3. "my_class" \in ptr[d] => class[ClassName(d)] = d
    BY <1>1, <2>2 DEF CrashOK
  <2>4. \A c \in {"chardev0", "sleepy"} : class'[c] = class[c] \/ class[c] = d
    BY <2>1, <2>3, ClassNames DEF RegistryInv, KernelOK
  <2> QED BY <2>1, <2>4, CrashExitCall DEF Calls
<1> QED BY <1>2, <1>3, <1>4, <1>5

LEMMA CrashLastStep ==
  ASSUME RegistryInv, CrashInv, NEW d \in Drivers,
         cdev_del(d) \/ unregister_chrdev_region(d) \/ kfree_pdata(d) \/ deactivate_attrs(d)
  PROVE  CrashInv'
<1>1. CASE cdev_del(d)
  BY <1>1, CrashExitCall DEF cdev_del, Calls
<1>2. CASE unregister_chrdev_region(d)
  BY <1>2, CrashExitCall DEF unregister_chrdev_region, Calls
<1>3. CASE kfree_pdata(d)
  BY <1>3, CrashExitCall DEF kfree_pdata, kernelVars, Calls
<1>4. CASE deactivate_attrs(d)
  <2>1. /\ UNCHANGED <<mod, todo, ptr, class, misc, drvdata>> /\ attrs' \subseteq attrs
        /\ \A c : To(d, c)' <=> To(d, c)
    BY <1>4, SameToDo DEF deactivate_attrs, loaderVars
  <2>2. CrashOK(d)'
    BY <2>1 DEF CrashInv, CrashOK, Past, ClassName
  <2> QED BY <2>1, <2>2, CrashOthers
<1> QED BY <1>1, <1>2, <1>3, <1>4

\* A module is loaded or unloaded, or init or exit returns.
LEMMA CrashLoadStep ==
  ASSUME RegistryInv, CrashInv, NEW d \in Drivers,
         insmod(d) \/ rmmod(d) \/ init_return(d) \/ exit_return(d)
  PROVE  CrashInv'
<1>1. CrashOK(d)
  BY DEF CrashInv
<1>2. /\ UNCHANGED <<class, misc, attrs, drvdata>>
      /\ \A e \in Drivers \ {d} : mod'[e] = mod[e] /\ todo'[e] = todo[e] /\ ptr'[e] = ptr[e]
  BY DEF insmod, rmmod, init_return, exit_return, kernelVars, RegistryInv, LoaderOK
<1>3. CASE insmod(d)
  <2> DEFINE s == InitCalls(d)
  <2>1. mod[d] = "unloaded" /\ mod'[d] = "init" /\ todo'[d] = s /\ ptr'[d] = {}
    BY <1>3 DEF insmod, RegistryInv, LoaderOK
  <2>2. \A c : (\E k \in 1..Len(s) : s[k] = c) <=>
          \/ d = "my_misc" /\ c \in {"misc", "attrs", "pdata", "drvdata"}
          \/ d # "my_misc" /\ c \in {"region", "cdev", "class", "device"}
          \/ d \notin {"my_misc", "sleepy"} /\ c = "pdata"
          \/ d \in WithAttrs \ {"my_misc"} /\ c \in {"attrs", "drvdata"}
    BY InitToDo
  <2> HIDE DEF s
  <2>3. /\ d # "my_misc" => To(d, "class")' /\ To(d, "device")'
        /\ To(d, "attrs")' => To(d, "drvdata")'
        /\ d = "my_misc" => To(d, "misc")'
    BY <2>1, <2>2 DEF To
  <2>4. d \notin attrs'
    BY <1>2, <2>1 DEF RegistryInv, KernelOK, AttrInv
  <2>5. CrashOK(d)'
    BY <2>1, <2>3, <2>4 DEF CrashOK, Past
  <2> QED BY <1>2, <2>5, CrashOthers
<1>4. CASE rmmod(d)
  <2> DEFINE s == ExitCalls(d)
  <2>1. mod[d] = "live" /\ mod'[d] = "exit" /\ todo'[d] = s /\ ptr'[d] = ptr[d]
    BY <1>4 DEF rmmod, RegistryInv, LoaderOK
  <2>2. \A c : (\E k \in 1..Len(s) : s[k] = c) <=>
          \/ d = "my_misc" /\ c = "misc"
          \/ d # "my_misc" /\ c \in {"device", "class", "cdev", "region"}
          \/ d \notin {"my_misc", "sleepy"} /\ c = "pdata"
          \/ d = "my_create_group_attr" /\ c = "attrs"
    BY ExitToDo
  <2> HIDE DEF s
  <2>3. (To(d, "attrs")' => To(d, "device")') /\ (To(d, "device")' => To(d, "class")')
    BY <2>1, <2>2 DEF To
  <2>4. CrashOK(d)'
    BY <1>1, <1>2, <2>1, <2>3 DEF CrashOK, Past, ClassName
  <2> QED BY <1>2, <2>4, CrashOthers
<1>5. CASE init_return(d) \/ exit_return(d)
  <2>1. /\ mod'[d] \in {"unloaded", "live"} /\ (mod'[d] = "live" => mod[d] = "init")
        /\ (mod'[d] = "live" => ptr'[d] = ptr[d]) /\ \A c : ~To(d, c)
    BY <1>5, NothingToDo DEF init_return, exit_return, RegistryInv, LoaderOK
  <2>2. CrashOK(d)'
    BY <1>1, <1>2, <2>1 DEF CrashOK, Past, ClassName
  <2> QED BY <1>2, <2>2, CrashOthers
<1> QED BY <1>3, <1>4, <1>5

LEMMA CrashInvStep ==
  ASSUME ~EarlyAccess, RegistryInv, CrashInv, [Next]_vars
  PROVE  CrashInv'
<1>1. ASSUME NEW d \in Drivers, insmod(d) \/ rmmod(d) \/ ModuleStep(d) PROVE CrashInv'
  BY <1>1, CrashInitStep, CrashAttrsStep, CrashMiscStep, CrashExitStep, CrashLastStep,
    CrashLoadStep DEF ModuleStep
<1>2. ASSUME UNCHANGED <<mod, todo, ptr, class, misc, attrs, drvdata>> PROVE CrashInv'
  <2>1. \A d : (\A c : To(d, c)' <=> To(d, c)) /\ ClassName(d)' = ClassName(d)
    BY <1>2, SameToDo DEF ClassName
  <2>2. \A d : \A c : Past(d, c)' <=> Past(d, c)
    BY <1>2, <2>1 DEF Past
  <2> QED BY <1>2, <2>1, <2>2 DEF CrashInv, CrashOK
<1>3. ASSUME NEW p \in Proc, my_chrdev_open(p) \/ my_misc_open(p) \/ my_chrdev_release(p)
      PROVE  CrashInv'
  BY <1>2, <1>3 DEF my_chrdev_open, my_misc_open, my_chrdev_release, Opens, loaderVars,
    kernelVars
<1>4. ASSUME NEW p \in Proc, NEW d \in Drivers, UseAttr(p, d) PROVE CrashInv'
  <2>1. d \in attrs /\ mod[d] = "live"
    BY <1>4 DEF UseAttr
  <2>2. d \in drvdata
    BY <2>1 DEF CrashInv, CrashOK
  <2> QED BY <1>2, <1>4, <2>2 DEF UseAttr, kernelVars
<1>5. ASSUME NEW p \in Proc, AttrStep(p) PROVE CrashInv'
  BY <1>2, <1>5 DEF AttrStep, loaderVars, kernelVars
<1>6. CASE UNCHANGED vars
  BY <1>2, <1>6 DEF vars, loaderVars, kernelVars
<1> QED BY <1>1, <1>3, <1>4, <1>5, <1>6 DEF Next

-----------------------------------------------------------------------------
(* The theorems *)

LEMMA IInvHolds == Spec => []IInv
<1>1. Init => IInv
  BY RegistryInit, TextInit DEF IInv
<1>2. IInv /\ [Next]_vars => IInv'
  BY RegistryStep, TextStep DEF IInv
<1> QED BY <1>1, <1>2, PTL DEF Spec

\* Every variable has its type; a module that is unloaded or has come up has
\* no call left to make.
THEOREM TypeCorrect == Spec => []TypeOK
<1>1. IInv => TypeOK
  BY DEF IInv, RegistryInv, LoaderOK, KernelOK, UsersOK, TextInv, TypeOK, Calls, AttrDrivers
<1> QED BY <1>1, IInvHolds, PTL

\* A module with an open file stays in memory, and so do the private data of the file
\* and that of a show or store under way.
THEOREM InUseStays == Spec => []FilesPinned
<1>1. IInv => FilesPinned
  BY DEF IInv, RegistryInv
<1> QED BY <1>1, IInvHolds, PTL

\* Who reads "buffer" beside no store gets the text stored last, if that one leaves room
\* for its NUL, whatever longer ones were stored before it, and whatever the room; who
\* reads "size", the number, if it has no more than three digits.
THEOREM ReaderGetsText == Spec => []ShownWhole
<1>1. IInv => ShownWhole
  BY DEF IInv, TextInv
<1> QED BY <1>1, IInvHolds, PTL

\* A module crashes only where a call of its init has returned NULL or an ERR_PTR, if
\* nobody is in the attributes before init returns: whatever is loaded beside it, and
\* whatever failed loads have left.  Each call of init and of exit finds what it follows.
THEOREM ErrorsCrash == ~EarlyAccess => (Spec => []CrashesOnlyOnError)
<1> SUFFICES ASSUME ~EarlyAccess PROVE Spec => []CrashesOnlyOnError
  OBVIOUS
<1>1. Init => RegistryInv /\ CrashInv
  BY RegistryInit, CrashInit
<1>2. RegistryInv /\ CrashInv /\ [Next]_vars => (RegistryInv /\ CrashInv)'
  BY RegistryStep, CrashInvStep
<1>3. CrashInv => CrashesOnlyOnError
  BY DEF CrashInv, CrashOK, CrashesOnlyOnError
<1> QED BY <1>1, <1>2, <1>3, PTL DEF Spec

\* If one module is loaded at a time, and nobody else has the device number, none whose
\* init has not failed leaves anything of its own in the kernel's registries when it is
\* unloaded, whatever failed in it or before it.
THEOREM CleansUpAlone ==
  OneAtATime /\ "region" \notin MayFail => (Spec => []NothingLeftBehind)
<1> SUFFICES ASSUME OneAtATime, "region" \notin MayFail PROVE Spec => []NothingLeftBehind
  OBVIOUS
<1>1. Spec => []AloneInv
  BY AloneHolds
<1>2. AloneInv => NothingLeftBehind
  BY DEF AloneInv
<1> QED BY <1>1, <1>2, PTL

\* If one module is loaded at a time, and nobody else has the device number, the one that
\* has come up owns it.
THEOREM OwnsNumberAlone ==
  OneAtATime /\ "region" \notin MayFail => (Spec => []LiveOwnsRegion)
<1> SUFFICES ASSUME OneAtATime, "region" \notin MayFail PROVE Spec => []LiveOwnsRegion
  OBVIOUS
<1>1. Spec => []AloneInv
  BY AloneHolds
<1>2. AloneInv => LiveOwnsRegion
  BY DEF AloneInv, FreshOrDoomed, LiveOwnsRegion, Fresh, Doomed, Has, ChrDrivers
<1> QED BY <1>1, <1>2, PTL
=============================================================================
