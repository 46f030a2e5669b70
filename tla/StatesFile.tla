----------------------------- MODULE StatesFile -----------------------------
(***************************************************************************)
(* The file in which web_proxy::StateThingy keeps the data of its states   *)
(* (src/src/web_proxy/state_thingy.cpp:44-89) and its encoding             *)
(* (src/src/storage/string_set.cpp).                                       *)
(*                                                                         *)
(* A string is a sequence of bytes and a byte is a number.  The length     *)
(* prefix has groups of 7 bits in the code and digits of Base here, with   *)
(* Base added to a digit that another one follows.                         *)
(*                                                                         *)
(* Loading and saving run on the main thread and are not interrupted by    *)
(* anything but the end of the process.                                    *)
(***************************************************************************)
EXTENDS Integers, Sequences, FiniteSets, SequencesExt

CONSTANTS
    Ids,        \* ids of states
    Data,       \* what State::data may be
    Base,       \* 128
    MaxCrashes  \* bound: how often the process is killed

Newline == 10

ASSUME FileAssumption ==
    /\ Ids \union Data \subseteq Seq(Nat)
    /\ \A i \in Ids : \A k \in DOMAIN i : i[k] # Newline
    /\ Base \in Nat /\ Base > 1
    /\ MaxCrashes \in Nat

VARIABLES
    phase,      \* of the process: "down", "starting", "up", "saving", "stopping"
    states,     \* State::data by id
    snapshot,   \* _snapshot
    file,       \* the bytes in the file
    out,        \* what the ofstream has still to write
    saved,      \* history: the entries of the last save that was completed
    torn,       \* history: a save was begun since then and not completed
    crashes     \* history: number of crashes

vars == <<phase, states, snapshot, file, out, saved, torn, crashes>>

-----------------------------------------------------------------------------
(* saveSet()                                                               *)
LengthPrefix(n) ==
    LET digits[k \in 0..n] == IF k < Base THEN <<k>> ELSE <<Base + (k % Base)>> \o digits[k \div Base]
    IN  digits[n]

Record(entry) == LengthPrefix(Len(entry)) \o entry

(* Of the last k entries, one after the other.                             *)
Written(entries) ==
    LET last[k \in 0..Len(entries)] ==
            IF k = 0 THEN <<>> ELSE Record(entries[Len(entries) - k + 1]) \o last[k - 1]
    IN  last[Len(entries)]

(* std::string::resize()                                                   *)
Resized(s, n) == [k \in 1..n |-> IF k <= Len(s) THEN s[k] ELSE 0]

(* The number of digits that a length prefix has, 0 if it does not end.    *)
Digits(bytes) ==
    LET ends == {i \in DOMAIN bytes : bytes[i] < Base} IN IF ends = {} THEN 0 ELSE Min(ends)

(* What they say: the value of the last k digits.                          *)
Value(digits) ==
    LET value[k \in 0..Len(digits)] ==
            IF k = 0 THEN 0 ELSE (digits[Len(digits) - k + 1] % Base) + Base * value[k - 1]
    IN  value[Len(digits)]

(* loadSet(): a string that ends too early is inserted all the same, with  *)
(* the rest of what `scratch` held before.                                 *)
LoadOne(s) ==
    LET digits == Digits(s.rest)
        size == Value(SubSeq(s.rest, 1, digits))
        text == SubSeq(s.rest, digits + 1, Len(s.rest))
        got == IF Len(text) < size THEN Len(text) ELSE size
        string == SubSeq(text, 1, got) \o SubSeq(Resized(s.scratch, size), got + 1, size)
    IN  IF digits = 0 THEN s
        ELSE [rest |-> SubSeq(text, got + 1, Len(text)), scratch |-> string, set |-> s.set \union {string}]

(* A byte is read for each string at least.                                *)
LoadSet(bytes) ==
    LET load[k \in 0..Len(bytes)] ==
            IF k = 0 THEN [rest |-> bytes, scratch |-> <<>>, set |-> {}] ELSE LoadOne(load[k - 1])
    IN  load[Len(bytes)].set

(* An entry without a newline is its own id and its own data.              *)
Id(entry) == LET i == SelectInSeq(entry, LAMBDA b : b = Newline) IN
             IF i = 0 THEN entry ELSE SubSeq(entry, 1, i - 1)

DataOf(entry) == LET i == SelectInSeq(entry, LAMBDA b : b = Newline) IN
                 SubSeq(entry, i + 1, Len(entry))

Entries(s) == {i \o <<Newline>> \o s[i] : i \in DOMAIN s}

NoStates == [i \in {} |-> <<>>]

-----------------------------------------------------------------------------
Init ==
    /\ phase = "down"
    /\ states = NoStates
    /\ snapshot = {}
    /\ file = <<>> /\ out = <<>>
    /\ saved = {} /\ torn = FALSE /\ crashes = 0

(* The constructor schedules loadStates().                                 *)
Start ==
    /\ phase = "down"
    /\ phase' = "starting"
    /\ states' = NoStates
    /\ snapshot' = {}
    /\ UNCHANGED <<file, out, saved, torn, crashes>>

(* Of two entries with the same id the one that comes last in the          *)
(* unordered_set counts.                                                   *)
LoadStates_NoSnapshot ==
    /\ phase = "starting"
    /\ phase' = "up"
    /\ LET set == LoadSet(file)
           ids == {Id(e) : e \in set} IN
       states' \in {s \in [ids -> {DataOf(e) : e \in set}] :
                       \A i \in ids : \E e \in set : Id(e) = i /\ DataOf(e) = s[i]}
    /\ UNCHANGED <<snapshot, file, out, saved, torn, crashes>>

LoadStates ==
    /\ phase = "starting"
    /\ phase' = "up"
    /\ LET set == LoadSet(file)
           ids == {Id(e) : e \in set} IN
       /\ states' \in {s \in [ids -> {DataOf(e) : e \in set}] :
                          \A i \in ids : \E e \in set : Id(e) = i /\ DataOf(e) = s[i]}
       /\ snapshot' = set
    /\ UNCHANGED <<file, out, saved, torn, crashes>>

(* Whatever module StateThingy does to _states.                            *)
Update ==
    /\ phase = "up"
    /\ \/ \E i \in Ids, d \in Data :
             states' = [j \in DOMAIN states \union {i} |-> IF j = i THEN d ELSE states[j]]
       \/ \E i \in DOMAIN states : states' = [j \in DOMAIN states \ {i} |-> states[j]]
    /\ UNCHANGED <<phase, snapshot, file, out, saved, torn, crashes>>

(* saveStates(), called each minute and by the destructor: the ofstream    *)
(* truncates the file when it opens it, and writes what it has got when    *)
(* its buffer is full or it is closed.                                     *)
Changed_Always == TRUE

Changed == Entries(states) # snapshot

OpenFile_Appends ==
    /\ Changed
    /\ out' \in {Written(q) : q \in SetToSeqs(Entries(states))}
    /\ torn' = TRUE
    /\ UNCHANGED <<states, snapshot, file, saved, crashes>>

OpenFile ==
    /\ Changed
    /\ file' = <<>>
    /\ out' \in {Written(q) : q \in SetToSeqs(Entries(states))}
    /\ torn' = TRUE
    /\ UNCHANGED <<states, snapshot, saved, crashes>>

SaveStates == phase = "up" /\ phase' = "saving" /\ OpenFile

Stop ==
    /\ phase \in {"starting", "up"}
    /\ \/ phase' = "stopping" /\ OpenFile
       \/ ~Changed /\ phase' = "down" /\ UNCHANGED <<states, snapshot, file, out, saved, torn, crashes>>

Flush ==
    /\ phase \in {"saving", "stopping"}
    /\ \E n \in 1..Len(out) :
          /\ file' = file \o SubSeq(out, 1, n)
          /\ out' = SubSeq(out, n + 1, Len(out))
    /\ UNCHANGED <<phase, states, snapshot, saved, torn, crashes>>

CloseFile ==
    /\ phase \in {"saving", "stopping"} /\ out = <<>>
    /\ phase' = IF phase = "saving" THEN "up" ELSE "down"
    /\ snapshot' = Entries(states)
    /\ saved' = Entries(states)
    /\ torn' = FALSE
    /\ UNCHANGED <<states, file, out, crashes>>

(* SIGTERM, which no entry point catches.                                  *)
Crash ==
    /\ phase # "down" /\ crashes < MaxCrashes
    /\ phase' = "down"
    /\ out' = <<>>
    /\ crashes' = crashes + 1
    /\ UNCHANGED <<states, snapshot, file, saved, torn>>

Next ==
    \/ Start \/ LoadStates \/ Update \/ SaveStates \/ Stop \/ Flush \/ CloseFile
    \/ Crash

Spec == Init /\ [][Next]_vars

-----------------------------------------------------------------------------
(* What was saved is what a start finds, whatever the order and length of  *)
(* the entries, unless a save was interrupted since.                       *)
Durable == ~torn => LoadSet(file) = saved

(* saveStates() may compare with _snapshot instead of reading the file,    *)
(* even when it was found torn.                                            *)
SnapshotIsFile == phase = "up" => snapshot = LoadSet(file)

(* A program that is stopped before it has loaded its states, or killed    *)
(* then, does not overwrite them.                                          *)
StartKeepsFile == [][phase = "starting" => file' = file]_vars
=============================================================================
