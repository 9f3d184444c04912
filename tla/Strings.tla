---------------------------------- MODULE Strings ----------------------------------
(***************************************************************************)
(* Datastructs/Strings/strings.c: a string with its length and the size of *)
(* its buffer, made from a C string and cut by string_slice.  The struct   *)
(* is passed by value, so that its owner keeps the old length and size.    *)
(* The buffer is memory as the stores leave it, beyond its end too.        *)
(***************************************************************************)
EXTENDS Integers, Sequences, SequencesExt

CONSTANTS
  Text,         \* the C strings
  Slack         \* bytes past its size that a buffer can take without harm

END == "end"    \* the null character

Assumptions ==
  /\ \A a \in Text : a \in Seq(Range(a) \ {END})
  /\ Slack \in Nat /\ Slack >= 2

VARIABLES
  length, size, \* the owner's struct
  content,      \* what is stored in the buffer, cell 0 first
  room,         \* the bytes asked for when the buffer was last allocated
  text,         \* what the string should be
  state         \* "none", "live", or "freed" when the owner's pointer dangles

vars == <<length, size, content, room, text, state>>

Init ==
  /\ length = 0 /\ size = 0 /\ room = 0
  /\ content = <<>> /\ text = <<>>
  /\ state = "none"

\* Mutant of SizeFor: the buffer grows one character later still.
SizeForLater(a) ==
  LET grown[n \in 0 .. Len(a)] ==
        IF n = 0 THEN 2 ELSE IF n - 1 > grown[n - 1] + 1 THEN 2 * grown[n - 1] ELSE grown[n - 1]
  IN grown[Len(a)]

\* The size of the buffer for a: it doubles when length > size, at character n
\* if the n - 1 before it are more than it can hold.
SizeFor(a) ==
  LET grown[n \in 0 .. Len(a)] ==
        IF n = 0 THEN 2 ELSE IF n - 1 > grown[n - 1] THEN 2 * grown[n - 1] ELSE grown[n - 1]
  IN grown[Len(a)]

\* new_string.
New(a) ==
  /\ state = "none"
  /\ content' = Append(a, END)
  /\ length' = Len(a)
  /\ size' = SizeFor(a) /\ room' = SizeFor(a)
  /\ text' = a
  /\ state' = "live"

\* Halved while it is larger than n, and doubled once.
Resized(s, n) ==
  LET half[k \in 0 .. s] == IF k > n THEN half[k \div 2] ELSE k
  IN 2 * half[s]

\* The characters moved to the front, with a terminator behind them.
Shifted(from, to) ==
  [k \in DOMAIN content |->
     IF k <= to - from THEN content[from + k]
     ELSE IF k = to - from + 1 THEN END ELSE content[k]]

\* string_slice, between two places of the string.  realloc may leave the
\* buffer where it is; if it moves or frees it, the owner's pointer dangles.
Slice(from, to) ==
  LET new_size == Resized(size, to - from) IN
  /\ state = "live"
  /\ 0 <= from /\ from <= to /\ to <= Len(text)
  /\ content' = Shifted(from, to)
  /\ text' = SubSeq(text, from + 1, to)
  /\ \/ new_size = size /\ UNCHANGED <<room, state>>
     \/ new_size # size /\ new_size # 0 /\ room' = new_size /\ UNCHANGED state
     \/ new_size # size /\ room' = new_size /\ state' = "freed"
  /\ UNCHANGED <<length, size>>

Next ==
  \/ \E a \in Text : New(a)
  \/ \E from, to \in 0 .. Len(text) : Slice(from, to)

Spec == Init /\ [][Next]_vars

-----------------------------------------------------------------------------

\* The characters before the first terminator, which string_comp compares.
Chars == SubSeq(content, 1, SelectInSeq(content, LAMBDA c : c = END) - 1)

\* strings_equal with a string made of a.
EqualTo(a) ==
  /\ length = Len(a)
  /\ \A k \in 1 .. length : content[k] = Append(a, END)[k]

\* As long as the owner's pointer is good, the string reads as the text it was
\* made of and sliced to, and no store goes further past its buffer than the
\* slack of an allocation: new_string grows it too late (strings.c:31), by two
\* bytes at most, and string_slice makes up for it (strings.c:75-81, 95-99), also when
\* it works on the size of a string that has been sliced before.  Only an empty
\* slice frees the buffer by itself.  Equality is by text until a slice makes the
\* owner's length stale.
ReadsAsText ==
  state = "live" =>
    /\ Chars = text
    /\ Len(text) + 1 <= room + Slack
    /\ room # size => Len(text) + 1 <= room
    /\ length = Len(text) => \A a \in Text : EqualTo(a) <=> a = text
================================================================================
