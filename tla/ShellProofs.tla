---------------------------- MODULE ShellProofs ----------------------------
(***************************************************************************)
(* Proofs about the kernel shell, for every size of the line, every set of *)
(* keys, commands and files, and about the string library it splits its    *)
(* lines with, for every size of memory, every alphabet and set of         *)
(* delimiters.                                                             *)
(***************************************************************************)
EXTENDS Shell, Strings, BasicLemmas, SequenceTheorems, TLAPS

Char == {"nul"} \cup UNION {KeyCodeToAscii(key) : key \in Keys}

Commands == {"help", "ls", "print", "page", "echo"}

TypeOK ==
    /\ line \in [0..LineSize - 1 -> Char] /\ line_len \in 0..LineSize
    /\ shown \in Seq(Char)
    /\ pc \in Commands \cup {"prompt", "parse", "unknown", "list", "free", "heap overrun", "panic"}

(* The line is a string: nothing in it ends it early, and what is parsed is not empty. *)
LineIsText ==
    /\ \A k \in 0..line_len - 1 : line[k] # "nul"
    /\ pc = "parse" => line_len > 0

Taken == {<<"command", 0>>, <<"arguments", 0>>} \cup {<<"argument", k>> : k \in 1..Len(arguments)}

(* What a command has taken at each place. *)
HeldInStep ==
    /\ pc \in {"prompt", "parse"} => held = {}
    /\ pc \in Commands \cup {"unknown", "free"} => held \subseteq Taken
    /\ pc = "list" => held \subseteq Taken \cup {<<"node", 0>>}

IInv == TypeOK /\ LineIsText /\ LineIsShown /\ HeldInStep /\ ArgumentsAreWords
(* The smallest and the greatest of some numbers. *)
LEMMA MinIs ==
    ASSUME NEW T, T \subseteq Nat, T # {}
    PROVE  Min(T) \in T /\ \A x \in T : Min(T) <= x
<1>1. \E x \in T : \A y \in T : x <= y
  BY LeastExists
<1> QED
  BY <1>1, Zenon DEF Min

(* How many elements malloc gives the array of arguments: at least one. *)
LEMMA MaxIs ==
    ASSUME NEW n \in Nat
    PROVE  /\ Max({1, n}) \in {1, n} /\ 1 <= Max({1, n}) /\ n <= Max({1, n})
<1>1. \E x \in {1, n} : \A y \in {1, n} : x >= y
  BY GreatestExists
<1>2. Max({1, n}) \in {1, n} /\ \A y \in {1, n} : Max({1, n}) >= y
  BY <1>1, Zenon DEF Max
<1> QED
  BY <1>2

(* A function on 1..n is a sequence of n elements. *)
LEMMA TextCounted ==
    ASSUME NEW S, NEW n \in Nat, NEW f \in [1..n -> S]
    PROVE  f \in Seq(S) /\ Len(f) = n
OBVIOUS

-----------------------------------------------------------------------------
(* Counting words: where they begin, and that no two begin at neighbouring characters. *)
Starts(text, delims) ==
    {a \in DOMAIN text : /\ a \in DOMAIN text /\ text[a] \notin delims
                         /\ ~(a - 1 \in DOMAIN text /\ text[a - 1] \notin delims)}

(* What is needed of half a line. *)
LEMMA Halves ==
    ASSUME NEW a \in Nat, NEW b \in Nat
    PROVE  /\ a \div 2 \in Nat
           /\ b >= 4 => b \div 2 >= 2
           /\ a + 2 <= b => a \div 2 < b \div 2
  OBVIOUS

(* A text has as many words as beginnings of words. *)
LEMMA WordsAreCounted ==
    ASSUME NEW text, NEW delims
    PROVE  /\ DOMAIN WordsOf(text, delims) = 1..Cardinality(Starts(text, delims))
           /\ WordsOf(text, delims)
                  = [k \in 1..Cardinality(Starts(text, delims)) |-> WordsOf(text, delims)[k]]
<1> DEFINE B == {a \in DOMAIN text : (a \in DOMAIN text /\ text[a] \notin delims)
                                      /\ ~(a - 1 \in DOMAIN text /\ text[a - 1] \notin delims)}
           end(a) == CHOOSE b \in a..Len(text) :
                        /\ ~(b + 1 \in DOMAIN text /\ text[b + 1] \notin delims)
                        /\ \A k \in a..b : k \in DOMAIN text /\ text[k] \notin delims
           word(k) == LET a == CHOOSE a \in B : Cardinality({b \in B : b <= a}) = k
                      IN  SubSeq(text, a, end(a))
<1>1. WordsOf(text, delims) = [k \in 1..Cardinality(B) |-> word(k)]
  BY DEF WordsOf
<1>2. B = Starts(text, delims)
  BY DEF Starts
<1> HIDE DEF B, word
<1> QED
  BY <1>1, <1>2

(* A text that begins with two characters of one word has at most half as many words
   as characters. *)
LEMMA WordsAreFew ==
    ASSUME NEW S, NEW text \in Seq(S), NEW delims, Len(text) >= 2,
           text[1] \notin delims, text[2] \notin delims
    PROVE  /\ Cardinality(Starts(text, delims)) \in Nat
           /\ Cardinality(Starts(text, delims)) <= Len(text) \div 2
<1> DEFINE B == Starts(text, delims)
           half == Len(text) \div 2
           f == [a \in B |-> IF a = 1 THEN 1 ELSE a \div 2]
<1>1. Len(text) \in Nat /\ DOMAIN text = 1..Len(text)
  BY LenProperties
<1>2. half \in Nat
  BY <1>1
<1>3. B \subseteq 1..Len(text)
  BY <1>1 DEF Starts
<1>4. IsFiniteSet(B) /\ Cardinality(B) \in Nat
  <2>1. IsFiniteSet(1..Len(text))
    BY <1>1, FS_Interval
  <2> HIDE DEF B
  <2>2. IsFiniteSet(B)
    BY <1>3, <2>1, FS_Subset
  <2> QED
    BY <2>2, FS_CardinalityType
<1>5. \A a \in B : a - 1 \notin B
  BY <1>1 DEF Starts
<1>6. 2 \notin B /\ 3 \notin B
  BY <1>1 DEF Starts
<1>7. f \in [B -> 1..half]
  <2> SUFFICES ASSUME NEW a \in B PROVE (IF a = 1 THEN 1 ELSE a \div 2) \in 1..half
    OBVIOUS
  <2> HIDE DEF B, f
  <2>1. a \in 1..Len(text) /\ a # 2
    BY <1>3, <1>6
  <2> QED
    BY <1>1, <2>1
<1>8. \A a, b \in B : f[a] = f[b] => a = b
  <2> SUFFICES ASSUME NEW a \in B, NEW b \in B, f[a] = f[b], a < b PROVE FALSE
    BY <1>3
  <2>1. /\ a = 1 => f[a] = 1
        /\ a # 1 => f[a] = a \div 2
        /\ b # 1 => f[b] = b \div 2
    OBVIOUS
  <2> HIDE DEF B, f
  <2>2. a \in Nat /\ b \in Nat /\ a >= 1 /\ b # a + 1 /\ b \notin {2, 3} /\ a \notin {2, 3}
    <3>1. b - 1 \notin B
      BY <1>5
    <3>2. a \in 1..Len(text) /\ b \in 1..Len(text)
      BY <1>3
    <3> QED
      BY <1>6, <3>1, <3>2
  <2>3. CASE a = 1
    <3>1. a \in Nat /\ b \in Nat /\ b >= 4
      BY <2>2, <2>3
    <3>2. b \div 2 >= 2
      BY <3>1, Halves
    <3>3. f[a] = 1 /\ f[b] = b \div 2
      BY <2>1, <2>3, <3>1
    <3>4. b \div 2 = 1
      BY <3>3, Zenon
    <3> QED
      BY <3>1, <3>2, <3>4
  <2>4. CASE a # 1
    <3>1. a \in Nat /\ b \in Nat /\ a + 2 <= b /\ b # 1
      BY <2>2, <2>4
    <3>2. a \div 2 < b \div 2 /\ a \div 2 \in Nat
      BY <3>1, Halves
    <3>3. f[a] = a \div 2 /\ f[b] = b \div 2
      BY <2>1, <2>4, <3>1
    <3>4. a \div 2 = b \div 2
      BY <3>3, Zenon
    <3> QED
      BY <3>1, <3>2, <3>4
  <2> QED
    BY <2>3, <2>4
<1>9. IsFiniteSet(1..half) /\ Cardinality(1..half) = half
  BY <1>2, FS_Interval
<1>10. Cardinality(B) <= half
  <2> HIDE DEF B, half, f
  <2>1. CASE Cardinality(1..half) < Cardinality(B)
    <3>1. \E a, b \in B : a # b /\ f[a] = f[b]
      BY <1>4, <1>7, <1>9, <2>1, FS_PigeonHole
    <3> QED
      BY <1>8, <3>1
  <2> QED
    BY <1>2, <1>4, <1>9, <2>1
<1> QED
  BY <1>4, <1>10
-----------------------------------------------------------------------------
(* The numbers the line is made of. *)
LEMMA LineIs ==
    ASSUME TypeOK
    PROVE  /\ LineSize \in Nat \ {0} /\ line_len \in Nat /\ line_len <= LineSize
           /\ line \in [0..LineSize - 1 -> Char] /\ DOMAIN line = 0..LineSize - 1
<1>1. LineSize \in Nat \ {0}
  BY ShellAssumption
<1>2. line \in [0..LineSize - 1 -> Char] /\ line_len \in 0..LineSize
  BY DEF TypeOK
<1> QED
  BY <1>1, <1>2

(* What a line holds, as a sequence. *)
TypedOn(cells, n) == [k \in 1..n |-> cells[k - 1]]

(* The first n characters of the line, as a sequence. *)
LEMMA TypedOnIs ==
    ASSUME NEW cells \in [0..LineSize - 1 -> Char], NEW n \in 0..LineSize
    PROVE  /\ TypedOn(cells, n) \in Seq(Char) /\ Len(TypedOn(cells, n)) = n
           /\ \A k \in 1..n : TypedOn(cells, n)[k] = cells[k - 1]
<1>1. LineSize \in Nat \ {0}
  BY ShellAssumption
<1>2. \A k \in 1..n : cells[k - 1] \in Char
  BY <1>1
<1>3. TypedOn(cells, n) \in [1..n -> Char] /\ n \in Nat
  BY <1>1, <1>2 DEF TypedOn
<1>4. TypedOn(cells, n) \in Seq(Char) /\ Len(TypedOn(cells, n)) = n
  BY <1>3
<1> QED
  BY <1>4 DEF TypedOn

(* A line that holds a word is that word. *)
LEMMA SameTyped ==
    ASSUME NEW cells \in [0..LineSize - 1 -> Char], NEW n \in 0..LineSize,
           NEW word \in Seq(Char), Len(word) = n, \A k \in 1..n : word[k] = cells[k - 1]
    PROVE  TypedOn(cells, n) = word
<1>1. /\ TypedOn(cells, n) \in Seq(Char) /\ Len(TypedOn(cells, n)) = n
      /\ \A k \in 1..n : TypedOn(cells, n)[k] = cells[k - 1]
  BY TypedOnIs
<1> QED
  BY <1>1, SeqEqual

(* What was typed is as long as line_len says. *)
LEMMA TypedIs ==
    ASSUME TypeOK
    PROVE  Typed \in Seq(Char) /\ Len(Typed) = line_len /\ \A k \in 1..line_len : Typed[k] = line[k - 1]
<1>1. Typed = TypedOn(line, line_len)
  BY DEF Typed, TypedOn
<1>2. line \in [0..LineSize - 1 -> Char] /\ line_len \in 0..LineSize
  BY DEF TypeOK
<1> QED
  BY <1>1, <1>2, TypedOnIs

(* Unless an erased character is left behind the line, it is parsed as it is shown. *)
LEMMA TextIsShown ==
    ASSUME TypeOK, LineIsText, LineIsShown, line_len < LineSize, ~Erased
    PROVE  Text = shown
<1>1. line_len \in Nat /\ LineSize \in Nat /\ DOMAIN line = 0..LineSize - 1
  BY LineIs
<1> DEFINE ends == {n \in DOMAIN line : line[n] = "nul"} \cup {LineSize}
<1>2. ends \subseteq Nat /\ line_len \in ends /\ ends # {}
  BY <1>1 DEF Erased
<1>3. \A n \in ends : line_len <= n
  BY <1>1 DEF LineIsText
<1>4. Min(ends) = line_len
  <2>1. Min(ends) \in ends /\ \A n \in ends : Min(ends) <= n
    <3> HIDE DEF ends
    <3> QED
      BY <1>2, MinIs
  <2> HIDE DEF ends
  <2>2. PICK m \in Nat : m = Min(ends)
    BY <1>2, <2>1
  <2>3. m <= line_len /\ line_len <= m
    BY <1>2, <1>3, <2>1, <2>2
  <2> QED
    BY <1>1, <2>2, <2>3
<1>5. Text = [k \in 1..line_len |-> line[k - 1]]
  BY <1>4 DEF Text
<1> QED
  BY <1>5 DEF LineIsShown, Typed

(* No command is a letter: what is parsed as one begins with two characters of a word. *)
LEMMA CommandIsLong ==
    ASSUME NEW text \in Seq(Char), NEW name \in DOMAIN Command,
           SubSeq(text, 1, CommandEnd(text)) = Command[name]
    PROVE  Len(text) >= 2 /\ text[1] \notin Separators /\ text[2] \notin Separators
<1>1. Len(text) \in Nat /\ \A k \in 1..Len(text) : text[k] \in Char
  BY LenProperties
<1> DEFINE ends == {n \in 1..Len(text) : text[n] \in Separators} \cup {Len(text) + 1}
<1>2. ends \subseteq Nat /\ ends \subseteq 1..Len(text) + 1 /\ ends # {}
  BY <1>1
<1>3. Min(ends) \in ends /\ \A n \in ends : Min(ends) <= n
  <2> HIDE DEF ends
  <2> QED
    BY <1>2, MinIs
<1>4. PICK m \in 1..Len(text) + 1 : m = Min(ends)
  BY <1>2, <1>3
<1>5. CommandEnd(text) = m - 1
  BY <1>4 DEF CommandEnd
<1>6. Len(SubSeq(text, 1, m - 1)) = IF 1 <= m - 1 THEN m - 1 ELSE 0
  <2>1. \A k \in 1..m - 1 : text[k] \in Char
    BY <1>1, <1>4
  <2>2. m - 1 \in Int
    BY <1>4
  <2>3. Len(SubSeq(text, 1, m - 1)) = IF 1 <= m - 1 THEN (m - 1) - 1 + 1 ELSE 0
    BY <2>1, <2>2, SubSeqProperties
  <2> QED
    BY <1>4, <2>3
<1>7. Len(Command[name]) >= 2
  BY ShellAssumption
<1>8. m >= 3
  BY <1>4, <1>5, <1>6, <1>7
<1>9. Len(text) >= 2 /\ 1 \notin ends /\ 2 \notin ends
  BY <1>1, <1>2, <1>3, <1>4, <1>8
<1> QED
  BY <1>1, <1>9
-----------------------------------------------------------------------------
(* The shell knows the commands it has a branch for. *)
LEMMA CommandsAre == Commands = DOMAIN Command
  BY ShellAssumption DEF Commands

(* A command that runs has the line's words: none was left out for want of room. *)
LEMMA ParsedWords ==
    ASSUME IInv, Parse, pc' \in DOMAIN Command, ~Erased
    PROVE  arguments' = Tokens(shown)
<1>1. line_len \in Nat /\ line_len < LineSize
  BY LineIs DEF IInv, Parse, LineIsShown
<1>2. Text = shown /\ shown \in Seq(Char) /\ Len(shown) = line_len
  BY <1>1, TextIsShown, TypedIs DEF IInv, LineIsShown
<1> DEFINE parts == Tokens(Text)
           room == Max({1, MaxArguments})
           kept == Min({Len(parts), room})
<1>3. /\ command' = SubSeq(Text, 1, CommandEnd(Text))
      /\ arguments' = SubSeq(parts, 1, kept)
  BY DEF Parse
<1>4. \E name \in DOMAIN Command : Command[name] = command'
  BY CommandsAre DEF Parse, Commands
<1>5. Len(shown) >= 2 /\ shown[1] \notin Separators /\ shown[2] \notin Separators
  BY <1>2, <1>3, <1>4, CommandIsLong
<1> DEFINE count == Cardinality(Starts(shown, Separators))
<1>6. count \in Nat /\ count <= MaxArguments
  BY <1>2, <1>5, WordsAreFew DEF MaxArguments
<1>7. parts = [k \in 1..count |-> parts[k]] /\ DOMAIN parts = 1..count
  BY <1>2, WordsAreCounted DEF Tokens
<1>8. parts \in Seq({parts[k] : k \in 1..count}) /\ Len(parts) = count
  <2> HIDE DEF parts, count
  <2>1. parts \in [1..count -> {parts[k] : k \in 1..count}]
    BY <1>7
  <2> QED
    BY <1>6, <2>1
<1>9. MaxArguments \in Nat /\ count <= room /\ room \in Nat
  <2>1. MaxArguments \in Nat
    BY <1>1 DEF MaxArguments
  <2>2. room \in {1, MaxArguments} /\ MaxArguments <= room
    BY <2>1, MaxIs
  <2> HIDE DEF count, room
  <2> QED
    BY <1>6, <2>1, <2>2
<1>10. kept = count
  <2> HIDE DEF parts, count, room
  <2>1. {Len(parts), room} \subseteq Nat /\ {Len(parts), room} # {}
    BY <1>6, <1>8, <1>9
  <2>2. kept \in {Len(parts), room} /\ \A n \in {Len(parts), room} : kept <= n
    BY <2>1, MinIs
  <2> HIDE DEF kept
  <2>3. kept \in Nat /\ kept <= count /\ kept \in {count, room}
    BY <1>6, <1>8, <1>9, <2>2
  <2> QED
    BY <1>6, <1>9, <2>3
<1>11. SubSeq(parts, 1, Len(parts)) = parts
  <2> HIDE DEF parts
  <2> QED
    BY <1>8, SubSeqFull
<1>12. arguments' = parts
  <2> HIDE DEF parts, kept, count
  <2> QED
    BY <1>3, <1>8, <1>10, <1>11
<1> QED
  BY <1>2, <1>12

(* Where a parsed command goes on, and what it has taken. *)
LEMMA ParsedPlace ==
    ASSUME IInv, Parse
    PROVE  /\ pc' \in Commands \cup {"unknown", "heap overrun"}
           /\ pc' = "heap overrun" => line_len = 1
           /\ held' \subseteq Taken'
<1>1. line_len \in Nat /\ line_len > 0
  BY LineIs DEF IInv, LineIsText, Parse
<1>2. pc' \in Commands \cup {"unknown", "heap overrun"}
  BY CommandsAre DEF Parse
<1>3. ASSUME pc' = "heap overrun" PROVE line_len = 1
  <2>1. MaxArguments = 0
    BY <1>3, CommandsAre DEF Parse, Commands
  <2> QED
    BY <1>1, <2>1, DivMod DEF MaxArguments
<1>4. held' \subseteq Taken'
  BY DEF Parse, Taken
<1> QED
  BY <1>2, <1>3, <1>4
-----------------------------------------------------------------------------
(* A prompt with an empty line. *)
LEMMA ClearedLine ==
    ASSUME pc' = "prompt", line' = Cleared, line_len' = 0, shown' = <<>>, held' = {}
    PROVE  IInv'
<1>1. LineSize \in Nat \ {0}
  BY ShellAssumption
<1>2. TypeOK'
  <2>1. Cleared \in [0..LineSize - 1 -> Char]
    BY DEF Cleared, Char
  <2>2. 0 \in 0..LineSize /\ <<>> \in Seq(Char)
    BY <1>1
  <2> QED
    BY <2>1, <2>2 DEF TypeOK
<1>3. LineIsText'
  BY DEF LineIsText
<1>4. LineIsShown'
  <2>1. Typed' = <<>>
    <3>1. Typed' = TypedOn(Cleared, 0)
      BY DEF Typed, TypedOn
    <3>2. <<>> \in Seq(Char) /\ Len(<<>>) = 0 /\ \A k \in 1..0 : <<>>[k] = Cleared[k - 1]
      BY EmptySeq
    <3>3. Cleared \in [0..LineSize - 1 -> Char] /\ 0 \in 0..LineSize
      BY <1>1 DEF Cleared, Char
    <3> QED
      BY <3>1, <3>2, <3>3, SameTyped
  <2>2. \A k \in 0 + 1..LineSize - 1 : Cleared[k] = "nul"
    BY DEF Cleared
  <2> QED
    BY <2>1, <2>2 DEF LineIsShown
<1>5. HeldInStep'
  BY DEF HeldInStep, Commands
<1>6. ArgumentsAreWords'
  BY CommandsAre DEF ArgumentsAreWords, Commands
<1> QED
  BY <1>2, <1>3, <1>4, <1>5, <1>6 DEF IInv

(* A step that leaves the line alone. *)
LEMMA SameLine ==
    ASSUME IInv, UNCHANGED <<line, line_len, shown>>, pc # "prompt", pc' # "parse",
           pc' \in Commands \cup {"unknown", "list", "free", "heap overrun", "panic"}
    PROVE  TypeOK' /\ LineIsText' /\ LineIsShown'
<1>1. TypeOK'
  BY DEF IInv, TypeOK
<1>2. LineIsText'
  BY DEF IInv, LineIsText
<1>3. LineIsShown'
  BY DEF IInv, LineIsShown, Typed
<1> QED
  BY <1>1, <1>2, <1>3

(* A key that is put on the line. *)
LEMMA PutKeepsLine ==
    ASSUME IInv, pc = "prompt", line_len < LineSize, NEW ch \in Char, ch # "nul", Put(ch), UNCHANGED held
    PROVE  IInv'
<1>1. /\ line' = [line EXCEPT ![line_len] = ch] /\ line_len' = line_len + 1
      /\ shown' = Append(shown, ch) /\ pc' = "prompt"
  BY DEF Put
<1>2. /\ LineSize \in Nat \ {0} /\ line_len \in Nat
      /\ line \in [0..LineSize - 1 -> Char] /\ DOMAIN line = 0..LineSize - 1
  BY LineIs DEF IInv
<1>3. /\ shown \in Seq(Char) /\ Len(shown) = line_len
      /\ \A k \in 1..line_len : shown[k] = line[k - 1]
  BY TypedIs DEF IInv, LineIsShown
<1>4. /\ Append(shown, ch) \in Seq(Char) /\ Len(Append(shown, ch)) = line_len + 1
      /\ \A k \in 1..line_len : Append(shown, ch)[k] = shown[k]
      /\ Append(shown, ch)[line_len + 1] = ch
  BY <1>3, AppendProperties
<1>5. /\ line' \in [0..LineSize - 1 -> Char] /\ line'[line_len] = ch
      /\ \A k \in 0..LineSize - 1 : k # line_len => line'[k] = line[k]
  BY <1>1, <1>2
<1>6. TypeOK'
  BY <1>1, <1>2, <1>4, <1>5 DEF TypeOK
<1>7. LineIsText'
  <2>1. ASSUME NEW k \in 0..line_len PROVE line'[k] # "nul"
    BY <1>2, <1>5 DEF IInv, LineIsText
  <2> QED
    BY <1>1, <1>2, <2>1 DEF LineIsText
<1>8. LineIsShown'
  <2>1. Typed' = shown'
    <3>1. \A k \in 1..line_len + 1 : Append(shown, ch)[k] = line'[k - 1]
      BY <1>2, <1>3, <1>4, <1>5
    <3>2. Typed' = TypedOn(line', line_len + 1)
      BY <1>1 DEF Typed, TypedOn
    <3>3. line_len + 1 \in 0..LineSize
      BY <1>2
    <3> QED
      BY <1>1, <1>4, <1>5, <3>1, <3>2, <3>3, SameTyped
  <2>2. \A k \in (line_len + 1) + 1..LineSize - 1 : line'[k] = "nul"
    BY <1>2, <1>5 DEF IInv, LineIsShown
  <2> QED
    BY <1>1, <2>1, <2>2 DEF LineIsShown
<1>9. HeldInStep'
  BY <1>1 DEF IInv, HeldInStep, Commands
<1>10. ArgumentsAreWords'
  BY <1>1, CommandsAre DEF ArgumentsAreWords, Commands
<1> QED
  BY <1>6, <1>7, <1>8, <1>9, <1>10 DEF IInv
(* The last character goes; it, or the one before it, is left behind the line. *)
LEMMA EraseKeepsLine ==
    ASSUME IInv, pc = "prompt", line_len < LineSize, Erase, UNCHANGED held
    PROVE  IInv'
<1>1. /\ line' = [line EXCEPT ![line_len] = "nul"] /\ line_len' = line_len - 1 /\ line_len > 0
      /\ shown' = SubSeq(shown, 1, Len(shown) - 1) /\ pc' = "prompt"
  BY DEF Erase, Front
<1>2. /\ LineSize \in Nat \ {0} /\ line_len \in Nat
      /\ line \in [0..LineSize - 1 -> Char] /\ DOMAIN line = 0..LineSize - 1
  BY LineIs DEF IInv
<1>3. /\ shown \in Seq(Char) /\ Len(shown) = line_len
      /\ \A k \in 1..line_len : shown[k] = line[k - 1]
  BY TypedIs DEF IInv, LineIsShown
<1>4. /\ shown' \in Seq(Char) /\ Len(shown') = line_len - 1
      /\ \A k \in 1..line_len - 1 : shown'[k] = shown[k]
  <2>1. 1 \in Int /\ line_len - 1 \in Int /\ \A k \in 1..line_len - 1 : shown[k] \in Char
    BY <1>2, <1>3
  <2>2. /\ SubSeq(shown, 1, line_len - 1) \in Seq(Char)
        /\ Len(SubSeq(shown, 1, line_len - 1)) = IF 1 <= line_len - 1 THEN (line_len - 1) - 1 + 1 ELSE 0
        /\ \A k \in 1..(line_len - 1) - 1 + 1 : SubSeq(shown, 1, line_len - 1)[k] = shown[1 + k - 1]
    BY <2>1, SubSeqProperties
  <2> QED
    BY <1>1, <1>2, <1>3, <2>2
<1>5. /\ line' \in [0..LineSize - 1 -> Char] /\ line'[line_len] = "nul"
      /\ \A k \in 0..LineSize - 1 : k # line_len => line'[k] = line[k]
  BY <1>1, <1>2 DEF Char
<1>6. TypeOK'
  BY <1>1, <1>2, <1>4, <1>5 DEF TypeOK
<1>7. LineIsText'
  <2>1. ASSUME NEW k \in 0..(line_len - 1) - 1 PROVE line'[k] # "nul"
    BY <1>2, <1>5 DEF IInv, LineIsText
  <2> QED
    BY <1>1, <2>1 DEF LineIsText
<1>8. LineIsShown'
  <2>1. Typed' = shown'
    <3>1. \A k \in 1..line_len - 1 : shown'[k] = line'[k - 1]
      BY <1>2, <1>3, <1>4, <1>5
    <3>2. Typed' = TypedOn(line', line_len - 1)
      BY <1>1 DEF Typed, TypedOn
    <3>3. line_len - 1 \in 0..LineSize
      BY <1>1, <1>2
    <3> QED
      BY <1>4, <1>5, <3>1, <3>2, <3>3, SameTyped
  <2>2. \A k \in (line_len - 1) + 1..LineSize - 1 : line'[k] = "nul"
    BY <1>2, <1>5 DEF IInv, LineIsShown
  <2> QED
    BY <1>1, <2>1, <2>2 DEF LineIsShown
<1>9. HeldInStep'
  BY <1>1 DEF IInv, HeldInStep, Commands
<1>10. ArgumentsAreWords'
  BY <1>1, CommandsAre DEF ArgumentsAreWords, Commands
<1> QED
  BY <1>6, <1>7, <1>8, <1>9, <1>10 DEF IInv
(* One event of the input device. *)
LEMMA KeyKeepsLine ==
    ASSUME IInv, ReadKey
    PROVE  IInv'
<1>1. pc = "prompt" /\ UNCHANGED <<command, arguments, i, limit, held, pages, printed>>
  BY DEF ReadKey, info, loop
<1> DEFINE Takes(ch) ==
              IF ch = "nul" \/ line_len >= LineSize THEN UNCHANGED <<editing, pc>>
              ELSE IF ch = "nl" THEN Enter
              ELSE IF ch = "bs" /\ line_len = 0 THEN UNCHANGED <<editing, pc>>
              ELSE IF ch = "bs" THEN Erase
              ELSE Put(ch)
<1>2. PICK key \in Keys : \E ch \in KeyCodeToAscii(key) : Takes(ch)
  BY DEF ReadKey
<1>3. PICK ch \in KeyCodeToAscii(key) : Takes(ch)
  BY <1>2
<1>4. ch \in Char
  BY DEF Char
<1>5. LineSize \in Nat \ {0} /\ line_len \in Nat
  BY LineIs DEF IInv
<1>6. held = {}
  BY <1>1 DEF IInv, HeldInStep
<1>7. CASE UNCHANGED <<editing, pc>>
  <2>1. UNCHANGED <<line, line_len, shown, pc, held>>
    BY <1>1, <1>7 DEF editing
  <2>2. TypeOK' /\ LineIsText' /\ LineIsShown'
    BY <2>1 DEF IInv, TypeOK, LineIsText, LineIsShown, Typed
  <2>3. HeldInStep' /\ ArgumentsAreWords'
    BY <1>1, <1>6, <2>1, CommandsAre DEF HeldInStep, ArgumentsAreWords, Commands
  <2> QED
    BY <2>2, <2>3 DEF IInv
<1>8. CASE Enter /\ line_len < LineSize
  <2>1. CASE line_len = 0
    <3>1. pc' = "prompt" /\ line' = Cleared /\ line_len' = 0 /\ shown' = shown
      BY <1>8, <2>1 DEF Enter
    <3>2. shown = <<>>
      <4>1. shown \in Seq(Char) /\ Len(shown) = 0
        BY <2>1, TypedIs DEF IInv, LineIsShown
      <4> QED
        BY <4>1, EmptySeq
    <3> QED
      BY <1>1, <1>6, <3>1, <3>2, ClearedLine
  <2>2. CASE line_len # 0
    <3>1. pc' = "parse" /\ UNCHANGED <<line, line_len, shown, held>>
      BY <1>1, <1>8, <2>2 DEF Enter
    <3>2. TypeOK'
      BY <3>1 DEF IInv, TypeOK
    <3>3. LineIsText'
      BY <1>5, <2>2, <3>1 DEF IInv, LineIsText
    <3>4. LineIsShown'
      BY <1>8, <3>1 DEF IInv, LineIsShown, Typed
    <3>5. HeldInStep' /\ ArgumentsAreWords'
      BY <1>6, <3>1, CommandsAre DEF HeldInStep, ArgumentsAreWords, Commands
    <3> QED
      BY <3>2, <3>3, <3>4, <3>5 DEF IInv
  <2> QED
    BY <2>1, <2>2
<1>9. CASE Erase /\ line_len < LineSize
  BY <1>1, <1>9, EraseKeepsLine
<1>10. CASE Put(ch) /\ ch # "nul" /\ line_len < LineSize
  BY <1>1, <1>4, <1>10, PutKeepsLine
<1> QED
  BY <1>3, <1>5, <1>7, <1>8, <1>9, <1>10

(* A command that ends: what it took beyond its words has been given back. *)
LEMMA CommandEnds ==
    ASSUME IInv, UNCHANGED <<line, line_len, shown>>, pc # "prompt", pc' \in {"free", "panic", "list"},
           arguments' = arguments, pc' = "free" => held' \subseteq Taken,
           pc' = "list" => held' \subseteq Taken \cup {<<"node", 0>>}
    PROVE  IInv'
<1>1. TypeOK' /\ LineIsText' /\ LineIsShown'
  BY SameLine DEF Commands
<1>2. Taken' = Taken
  BY DEF Taken
<1>3. HeldInStep'
  BY <1>2 DEF HeldInStep, Commands
<1>4. ArgumentsAreWords'
  BY CommandsAre DEF ArgumentsAreWords, Commands
<1> QED
  BY <1>1, <1>3, <1>4 DEF IInv

(* The inductive invariant: the line is what is shown of it whatever keys came, and
   at each place of a command what is held is what the command has taken. *)
THEOREM ShellInvariant == Spec => []IInv
<1>1. Init => IInv
  <2> SUFFICES ASSUME Init PROVE IInv
    OBVIOUS
  <2>1. /\ line = Cleared /\ line_len = 0 /\ shown = <<>> /\ pc = "prompt" /\ held = {}
    BY DEF Init
  <2>2. LineSize \in Nat \ {0}
    BY ShellAssumption
  <2>3. Cleared \in [0..LineSize - 1 -> Char] /\ \A k \in 0 + 1..LineSize - 1 : Cleared[k] = "nul"
    BY DEF Cleared, Char
  <2>4. <<>> \in Seq(Char) /\ Len(<<>>) = 0 /\ 0 \in 0..LineSize
    BY <2>2, EmptySeq
  <2>5. TypeOK
    BY <2>1, <2>3, <2>4 DEF TypeOK
  <2>6. Typed = shown
    <3>1. Typed \in Seq(Char) /\ Len(Typed) = 0
      BY <2>1, <2>5, TypedIs
    <3> QED
      BY <2>1, <3>1, EmptySeq
  <2>7. LineIsShown
    BY <2>1, <2>3, <2>6 DEF LineIsShown
  <2>8. LineIsText
    BY <2>1 DEF LineIsText
  <2>9. HeldInStep /\ ArgumentsAreWords
    BY <2>1, CommandsAre DEF HeldInStep, ArgumentsAreWords, Commands
  <2> QED
    BY <2>5, <2>7, <2>8, <2>9 DEF IInv
<1>2. IInv /\ [Next]_vars => IInv'
  <2> SUFFICES ASSUME IInv, [Next]_vars PROVE IInv'
    OBVIOUS
  <2>1. CASE ReadKey
    BY <2>1, KeyKeepsLine
  <2>2. CASE Parse
    <3>1. pc = "parse" /\ UNCHANGED <<line, line_len, shown>>
      BY <2>2 DEF Parse, editing
    <3>2. /\ pc' \in Commands \cup {"unknown", "heap overrun"} /\ held' \subseteq Taken'
          /\ pc' = "heap overrun" => line_len = 1
      BY <2>2, ParsedPlace
    <3>3. TypeOK' /\ LineIsText' /\ LineIsShown'
      BY <3>1, <3>2, SameLine DEF Commands
    <3>4. HeldInStep'
      BY <3>2 DEF HeldInStep, Commands
    <3>5. ArgumentsAreWords'
      <4>1. Erased' <=> Erased
        BY <3>1 DEF Erased
      <4>2. ASSUME pc' \in DOMAIN Command, ~Erased PROVE arguments' = Tokens(shown')
        BY <2>2, <3>1, <4>2, ParsedWords
      <4> QED
        BY <3>1, <3>2, <4>1, <4>2 DEF ArgumentsAreWords
    <3> QED
      BY <3>3, <3>4, <3>5 DEF IInv
  <2>3. CASE Message
    <3>1. /\ pc \in {"help", "unknown"} /\ pc' = "free"
          /\ UNCHANGED <<line, line_len, shown, arguments, held>>
      BY <2>3 DEF Message, GoesTo, editing, info
    <3>2. held \subseteq Taken
      BY <3>1 DEF IInv, HeldInStep, Commands
    <3> QED
      BY <3>1, <3>2, CommandEnds
  <2>4. CASE Echo
    <3>1. pc = "echo" /\ pc' = "free" /\ UNCHANGED <<line, line_len, shown, arguments, held>>
      BY <2>4 DEF Echo, GoesTo, editing, info
    <3>2. held \subseteq Taken
      BY <3>1 DEF IInv, HeldInStep, Commands
    <3> QED
      BY <3>1, <3>2, CommandEnds
  <2>5. CASE Page
    <3>1. pc = "page" /\ pc' \in {"free", "panic"} /\ UNCHANGED <<line, line_len, shown, arguments, held>>
      BY <2>5 DEF Page, editing, info
    <3>2. held \subseteq Taken
      BY <3>1 DEF IInv, HeldInStep, Commands
    <3> QED
      BY <3>1, <3>2, CommandEnds
  <2>6. CASE NoFile
    <3>1. pc \in {"ls", "print"} /\ pc' = "free" /\ UNCHANGED <<line, line_len, shown, arguments, held>>
      BY <2>6 DEF NoFile, GoesTo, editing, info
    <3>2. held \subseteq Taken
      BY <3>1 DEF IInv, HeldInStep, Commands
    <3> QED
      BY <3>1, <3>2, CommandEnds
  <2>7. CASE PrintFile
    <3>1. pc = "print" /\ pc' = "free" /\ UNCHANGED <<line, line_len, shown, arguments, held>>
      BY <2>7 DEF PrintFile, GoesTo, editing, info
    <3>2. held \subseteq Taken
      BY <3>1 DEF IInv, HeldInStep, Commands
    <3> QED
      BY <3>1, <3>2, CommandEnds
  <2>8. CASE OpenDirectory
    <3>1. /\ pc = "ls" /\ pc' = "list" /\ UNCHANGED <<line, line_len, shown, arguments>>
          /\ held' = held \cup {<<"node", 0>>}
      BY <2>8 DEF OpenDirectory, GoesTo, editing, info
    <3>2. held \subseteq Taken
      BY <3>1 DEF IInv, HeldInStep, Commands
    <3> QED
      BY <3>1, <3>2, CommandEnds
  <2>9. CASE ListName
    <3>1. pc = "list" /\ pc' = "list" /\ UNCHANGED <<line, line_len, shown, arguments, held>>
      BY <2>9 DEF ListName, GoesTo, editing, info
    <3>2. held \subseteq Taken \cup {<<"node", 0>>}
      BY <3>1 DEF IInv, HeldInStep
    <3> QED
      BY <3>1, <3>2, CommandEnds
  <2>10. CASE ListEnds
    <3>1. /\ pc = "list" /\ pc' = "free" /\ UNCHANGED <<line, line_len, shown, arguments>>
          /\ held' = held \ {<<"node", 0>>}
      BY <2>10 DEF ListEnds, GoesTo, editing, info
    <3>2. held \subseteq Taken \cup {<<"node", 0>>}
      BY <3>1 DEF IInv, HeldInStep
    <3> QED
      BY <3>1, <3>2, CommandEnds
  <2>11. CASE FreeCommandInfo
    <3>1. /\ pc = "free" /\ pc' = "prompt" /\ line' = Cleared /\ line_len' = 0 /\ shown' = <<>>
          /\ held' = held \ Taken
      BY <2>11 DEF FreeCommandInfo, Taken
    <3>2. held \subseteq Taken
      BY <3>1 DEF IInv, HeldInStep
    <3> QED
      BY <3>1, <3>2, ClearedLine
  <2>12. CASE Stopped \/ UNCHANGED vars
    <3>1. UNCHANGED <<line, line_len, shown, arguments, pc, held>>
      BY <2>12 DEF Stopped, vars, editing, info
    <3>2. TypeOK' /\ LineIsText' /\ LineIsShown'
      BY <3>1 DEF IInv, TypeOK, LineIsText, LineIsShown, Typed
    <3>3. HeldInStep' /\ ArgumentsAreWords'
      BY <3>1 DEF IInv, HeldInStep, Taken, ArgumentsAreWords, Erased
    <3> QED
      BY <3>2, <3>3 DEF IInv
  <2> QED
    BY <2>1, <2>2, <2>3, <2>4, <2>5, <2>6, <2>7, <2>8, <2>9, <2>10, <2>11, <2>12 DEF Next, Run
<1> QED
  BY <1>1, <1>2, PTL DEF Spec

(* What stands behind the prompt is what the line holds, whatever was typed and
   erased, and the line ends inside the array when it is parsed. *)
THEOREM ShellLineIsShown == Spec => []LineIsShown
<1>1. IInv => LineIsShown
  BY DEF IInv
<1> QED
  BY <1>1, ShellInvariant, PTL

(* A command gets every word of the line that is shown: half as many cells as the
   line has characters are enough for its words, because no command is a letter. *)
THEOREM ShellArgumentsAreWords == Spec => []ArgumentsAreWords
<1>1. IInv => ArgumentsAreWords
  BY DEF IInv
<1> QED
  BY <1>1, ShellInvariant, PTL

(* Every way a command ends gives back the memory and the nodes it took. *)
THEOREM ShellCommandsGiveBack == Spec => []CommandsGiveBack
<1>1. IInv => CommandsGiveBack
  BY DEF IInv, HeldInStep, CommandsGiveBack
<1> QED
  BY <1>1, ShellInvariant, PTL

-----------------------------------------------------------------------------
(* What is left of a text without some of its characters, when the text grows. *)
Kept(text, dropped) == {k \in DOMAIN text : text[k] \notin dropped}

KeptUpTo(text, dropped, k) == {j \in Kept(text, dropped) : j <= k}

NthKept(text, dropped, n) ==
    {k \in Kept(text, dropped) : Cardinality(KeptUpTo(text, dropped, k)) = n}

(* The definition, with its parts named. *)
LEMMA WithoutIs ==
    ASSUME NEW text, NEW dropped
    PROVE  Without(text, dropped) =
              [n \in 1..Cardinality(Kept(text, dropped)) |-> text[Min(NthKept(text, dropped, n))]]
BY Zenon DEF Without, Kept, KeptUpTo, NthKept

(* They are places of the text, and so finitely many. *)
LEMMA KeptAreFinite ==
    ASSUME NEW S, NEW text \in Seq(S), NEW dropped, NEW k
    PROVE  /\ Kept(text, dropped) \subseteq 1..Len(text) /\ Len(text) \in Nat
           /\ IsFiniteSet(Kept(text, dropped)) /\ Cardinality(Kept(text, dropped)) \in Nat
           /\ IsFiniteSet(KeptUpTo(text, dropped, k))
           /\ Cardinality(KeptUpTo(text, dropped, k)) \in Nat
           /\ Cardinality(KeptUpTo(text, dropped, k)) <= Cardinality(Kept(text, dropped))
<1>1. Len(text) \in Nat /\ DOMAIN text = 1..Len(text)
  BY LenProperties
<1>2. Kept(text, dropped) \subseteq 1..Len(text)
  BY <1>1 DEF Kept
<1>3. IsFiniteSet(1..Len(text))
  BY <1>1, FS_Interval
<1>4. IsFiniteSet(Kept(text, dropped))
  BY <1>2, <1>3, FS_Subset
<1>5. KeptUpTo(text, dropped, k) \in SUBSET Kept(text, dropped)
  BY DEF KeptUpTo
<1>6. /\ IsFiniteSet(KeptUpTo(text, dropped, k))
      /\ Cardinality(KeptUpTo(text, dropped, k)) <= Cardinality(Kept(text, dropped))
  BY <1>4, <1>5, FS_Subset
<1> QED
  BY <1>1, <1>2, <1>4, <1>6, FS_CardinalityType

(* Up to the next place there is one more of them, if that place is kept. *)
LEMMA KeptGrow ==
    ASSUME NEW S, NEW text \in Seq(S), NEW dropped, NEW k \in Nat
    PROVE  /\ k + 1 \in Kept(text, dropped) =>
                 Cardinality(KeptUpTo(text, dropped, k + 1)) = Cardinality(KeptUpTo(text, dropped, k)) + 1
           /\ k + 1 \notin Kept(text, dropped) =>
                 Cardinality(KeptUpTo(text, dropped, k + 1)) = Cardinality(KeptUpTo(text, dropped, k))
<1>1. Kept(text, dropped) \subseteq Nat /\ IsFiniteSet(KeptUpTo(text, dropped, k))
  <2>1. Kept(text, dropped) \subseteq 1..Len(text) /\ IsFiniteSet(KeptUpTo(text, dropped, k))
    BY KeptAreFinite
  <2> QED
    BY <2>1
<1>2. CASE k + 1 \in Kept(text, dropped)
  <2>1. KeptUpTo(text, dropped, k + 1) = KeptUpTo(text, dropped, k) \cup {k + 1}
    BY <1>1, <1>2 DEF KeptUpTo
  <2>2. k + 1 \notin KeptUpTo(text, dropped, k)
    BY DEF KeptUpTo
  <2> QED
    BY <1>1, <1>2, <2>1, <2>2, FS_AddElement
<1>3. CASE k + 1 \notin Kept(text, dropped)
  <2>1. KeptUpTo(text, dropped, k + 1) = KeptUpTo(text, dropped, k)
    BY <1>1, <1>3 DEF KeptUpTo
  <2> QED
    BY <1>3, <2>1
<1> QED
  BY <1>2, <1>3

(* The n-th of them exists. *)
LEMMA NthIsKept ==
    ASSUME NEW S, NEW text \in Seq(S), NEW dropped, NEW n \in 1..Cardinality(Kept(text, dropped))
    PROVE  /\ NthKept(text, dropped, n) # {} /\ NthKept(text, dropped, n) \subseteq Kept(text, dropped)
           /\ Min(NthKept(text, dropped, n)) \in Kept(text, dropped)
<1> DEFINE count(k) == Cardinality(KeptUpTo(text, dropped, k))
<1> DEFINE T == {k \in 0..Len(text) : count(k) >= n}
<1>1. /\ Kept(text, dropped) \subseteq 1..Len(text) /\ Len(text) \in Nat
      /\ Cardinality(Kept(text, dropped)) \in Nat
  BY KeptAreFinite
<1>2. \A k \in 0..Len(text) : count(k) \in Nat
  BY KeptAreFinite
<1>3. Len(text) \in T
  <2>1. KeptUpTo(text, dropped, Len(text)) = Kept(text, dropped)
    BY <1>1 DEF KeptUpTo
  <2> QED
    BY <1>1, <2>1
<1>4. T \subseteq Nat /\ T # {}
  BY <1>3
<1>5. PICK k \in T : \A j \in T : k <= j
  <2> HIDE DEF T
  <2> QED
    BY <1>4, LeastExists, Zenon
<1>6. k # 0
  <2>1. KeptUpTo(text, dropped, 0) = {}
    BY <1>1 DEF KeptUpTo
  <2>2. count(0) = 0
    BY <2>1, FS_EmptySet
  <2>3. 0 \notin T
    BY <2>2
  <2> QED
    BY <1>5, <2>3
<1>7. k \in Nat /\ k - 1 \in Nat /\ k - 1 \in 0..Len(text) /\ k - 1 \notin T /\ k <= Len(text) /\ k = (k - 1) + 1
  BY <1>1, <1>5, <1>6
<1>8. count(k - 1) < n /\ count(k) >= n /\ count(k - 1) \in Nat /\ count(k) \in Nat
  BY <1>2, <1>5, <1>7
<1>9. PICK m \in Nat : m = k - 1
  BY <1>7
<1>10. /\ m + 1 \in Kept(text, dropped) => count(m + 1) = count(m) + 1
       /\ m + 1 \notin Kept(text, dropped) => count(m + 1) = count(m)
  BY KeptGrow
<1>11. k \in Kept(text, dropped) /\ count(k) = n
  BY <1>7, <1>8, <1>9, <1>10
<1>12. NthKept(text, dropped, n) # {} /\ NthKept(text, dropped, n) \subseteq Kept(text, dropped)
  BY <1>11 DEF NthKept
<1>13. NthKept(text, dropped, n) \subseteq Nat
  BY <1>1, <1>12
<1>14. Min(NthKept(text, dropped, n)) \in NthKept(text, dropped, n)
  BY <1>12, <1>13, MinIs
<1> QED
  BY <1>12, <1>14

(* What is left is a text as long as there are characters kept. *)
LEMMA WithoutType ==
    ASSUME NEW S, NEW text \in Seq(S), NEW dropped
    PROVE  /\ Without(text, dropped) \in Seq(S)
           /\ Len(Without(text, dropped)) = Cardinality(Kept(text, dropped))
           /\ \A n \in 1..Cardinality(Kept(text, dropped)) :
                 Without(text, dropped)[n] = text[Min(NthKept(text, dropped, n))]
<1> DEFINE count == Cardinality(Kept(text, dropped))
           f == [n \in 1..count |-> text[Min(NthKept(text, dropped, n))]]
<1>1. Without(text, dropped) = f
  BY WithoutIs
<1>2. count \in Nat /\ Kept(text, dropped) \subseteq 1..Len(text)
  BY KeptAreFinite
<1>3. ASSUME NEW n \in 1..count PROVE text[Min(NthKept(text, dropped, n))] \in S
  <2>1. Min(NthKept(text, dropped, n)) \in Kept(text, dropped)
    BY NthIsKept
  <2> QED
    BY <1>2, <2>1, ElementOfSeq
<1> HIDE DEF count
<1>4. f \in [1..count -> S]
  BY <1>3
<1>5. f \in Seq(S) /\ Len(f) = count
  BY <1>2, <1>4, TextCounted
<1>6. \A n \in 1..count : f[n] = text[Min(NthKept(text, dropped, n))]
  OBVIOUS
<1> QED
  BY <1>1, <1>5, <1>6 DEF count

(* Of nothing nothing is left. *)
LEMMA WithoutNothing ==
    ASSUME NEW dropped
    PROVE  Without(<<>>, dropped) = <<>>
<1>1. <<>> \in Seq({}) /\ Len(<<>>) = 0
  BY EmptySeq
<1>2. Kept(<<>>, dropped) = {}
  BY DEF Kept
<1>3. Without(<<>>, dropped) \in Seq({}) /\ Len(Without(<<>>, dropped)) = 0
  BY <1>1, <1>2, WithoutType, FS_EmptySet
<1> QED
  BY <1>3, EmptySeq

(* One more character: it is added to what is left, or it is left out. *)
LEMMA WithoutAppend ==
    ASSUME NEW S, NEW text \in Seq(S), NEW ch \in S, NEW dropped
    PROVE  /\ ch \in dropped => Without(Append(text, ch), dropped) = Without(text, dropped)
           /\ ch \notin dropped => Without(Append(text, ch), dropped) = Append(Without(text, dropped), ch)
<1> DEFINE longer == Append(text, ch)
           old == Kept(text, dropped)
           new == Kept(longer, dropped)
           size == Len(text)
<1>1. /\ longer \in Seq(S) /\ Len(longer) = size + 1 /\ size \in Nat
      /\ \A k \in 1..size : longer[k] = text[k]
      /\ longer[size + 1] = ch
  BY AppendProperties, LenProperties
<1>2. DOMAIN text = 1..size /\ DOMAIN longer = 1..size + 1
  BY <1>1, LenProperties
<1>3. new = IF ch \in dropped THEN old ELSE old \cup {size + 1}
  BY <1>1, <1>2 DEF Kept
<1>4. old \subseteq 1..size /\ IsFiniteSet(old) /\ Cardinality(old) \in Nat
  BY KeptAreFinite
<1>5. Cardinality(new) = IF ch \in dropped THEN Cardinality(old) ELSE Cardinality(old) + 1
  <2>1. size + 1 \notin old
    BY <1>1, <1>4
  <2>2. Cardinality(old \cup {size + 1}) = Cardinality(old) + 1
    BY <1>4, <2>1, FS_AddElement
  <2> QED
    BY <1>3, <2>2
<1>6. ASSUME NEW k \in 1..size
      PROVE  KeptUpTo(longer, dropped, k) = KeptUpTo(text, dropped, k)
  BY <1>1, <1>3, <1>4, <1>6 DEF KeptUpTo
<1>7. ASSUME ch \notin dropped
      PROVE  Cardinality(KeptUpTo(longer, dropped, size + 1)) = Cardinality(old) + 1
  <2>1. KeptUpTo(longer, dropped, size + 1) = new
    BY <1>1, <1>3, <1>4, <1>7 DEF KeptUpTo
  <2> QED
    BY <1>5, <1>7, <2>1
<1>8. ASSUME NEW n \in 1..Cardinality(old)
      PROVE  NthKept(longer, dropped, n) = NthKept(text, dropped, n)
  <2>1. ASSUME NEW k \in new, k # size + 1
        PROVE  Cardinality(KeptUpTo(longer, dropped, k)) = n <=> Cardinality(KeptUpTo(text, dropped, k)) = n
    BY <1>3, <1>4, <1>6, <2>1
  <2>2. ASSUME size + 1 \in new
        PROVE  Cardinality(KeptUpTo(longer, dropped, size + 1)) # n
    <3>1. ch \notin dropped
      BY <1>1, <1>3, <1>4, <2>2
    <3> QED
      BY <1>4, <1>7, <1>8, <3>1
  <2>3. \A k \in new : k # size + 1 => k \in old
    BY <1>3
  <2>4. \A k \in old : k \in new /\ k # size + 1
    BY <1>1, <1>3, <1>4
  <2> QED
    BY <2>1, <2>2, <2>3, <2>4 DEF NthKept
<1>9. /\ Without(text, dropped) \in Seq(S) /\ Len(Without(text, dropped)) = Cardinality(old)
      /\ \A n \in 1..Cardinality(old) : Without(text, dropped)[n] = text[Min(NthKept(text, dropped, n))]
  BY WithoutType
<1>10. /\ Without(longer, dropped) \in Seq(S) /\ Len(Without(longer, dropped)) = Cardinality(new)
       /\ \A n \in 1..Cardinality(new) : Without(longer, dropped)[n] = longer[Min(NthKept(longer, dropped, n))]
  <2> HIDE DEF longer
  <2> QED
    BY <1>1, WithoutType
<1>11. ASSUME NEW n \in 1..Cardinality(old)
       PROVE  Without(longer, dropped)[n] = Without(text, dropped)[n]
  <2>1. Min(NthKept(text, dropped, n)) \in old
    BY NthIsKept
  <2>2. n \in 1..Cardinality(new)
    BY <1>4, <1>5, <1>11
  <2>3. Without(longer, dropped)[n] = longer[Min(NthKept(text, dropped, n))]
    BY <1>8, <1>10, <2>2
  <2>4. longer[Min(NthKept(text, dropped, n))] = text[Min(NthKept(text, dropped, n))]
    BY <1>1, <1>4, <2>1
  <2> QED
    BY <1>9, <2>3, <2>4
<1>12. CASE ch \in dropped
  <2>1. Len(Without(longer, dropped)) = Len(Without(text, dropped))
    BY <1>5, <1>9, <1>10, <1>12
  <2>2. Without(longer, dropped) = Without(text, dropped)
    <3> HIDE DEF longer
    <3> QED
      BY <1>9, <1>10, <1>11, <2>1, SeqEqual
  <2> QED
    BY <1>12, <2>2
<1>13. CASE ch \notin dropped
  <2> DEFINE count == Cardinality(old)
  <2>1. Without(longer, dropped)[count + 1] = ch
    <3>1. count + 1 \in 1..Cardinality(new)
      BY <1>4, <1>5, <1>13
    <3>2. size + 1 \in NthKept(longer, dropped, count + 1)
      BY <1>3, <1>7, <1>13 DEF NthKept
    <3>3. ASSUME NEW k \in NthKept(longer, dropped, count + 1) PROVE k = size + 1
      <4>1. k \in new /\ Cardinality(KeptUpTo(longer, dropped, k)) = count + 1
        BY DEF NthKept
      <4>2. ASSUME k # size + 1 PROVE FALSE
        <5>1. k \in old /\ k \in 1..size
          BY <1>3, <1>4, <4>1, <4>2
        <5>2. Cardinality(KeptUpTo(longer, dropped, k)) = Cardinality(KeptUpTo(text, dropped, k))
          BY <1>6, <5>1
        <5>3. Cardinality(KeptUpTo(text, dropped, k)) <= count
          BY KeptAreFinite
        <5> QED
          BY <1>4, <4>1, <5>2, <5>3
      <4> QED
        BY <4>2
    <3>4. NthKept(longer, dropped, count + 1) = {size + 1}
      BY <3>2, <3>3
    <3>5. Min({size + 1}) = size + 1
      <4>1. {size + 1} \subseteq Nat /\ {size + 1} # {}
        BY <1>1
      <4>2. Min({size + 1}) \in {size + 1}
        BY <4>1, MinIs
      <4> QED
        BY <4>2
    <3> QED
      BY <1>1, <1>10, <3>1, <3>4, <3>5
  <2>2. /\ Append(Without(text, dropped), ch) \in Seq(S)
        /\ Len(Append(Without(text, dropped), ch)) = count + 1
        /\ \A n \in 1..count : Append(Without(text, dropped), ch)[n] = Without(text, dropped)[n]
        /\ Append(Without(text, dropped), ch)[count + 1] = ch
    BY <1>9, AppendProperties
  <2>3. Len(Without(longer, dropped)) = count + 1
    BY <1>5, <1>10, <1>13
  <2>4. \A n \in 1..count + 1 : Without(longer, dropped)[n] = Append(Without(text, dropped), ch)[n]
    BY <1>4, <1>11, <2>1, <2>2
  <2>5. Without(longer, dropped) = Append(Without(text, dropped), ch)
    <3> HIDE DEF longer
    <3> QED
      BY <1>10, <2>2, <2>3, <2>4, SeqEqual
  <2> QED
    BY <1>13, <2>5
<1> QED
  BY <1>12, <1>13

-----------------------------------------------------------------------------
(* The list that ls prints *)

Marks == {",", "(d)"}

Places(out, comma) == {k \in DOMAIN out : out[k] = comma}

(* How often a word stands there after one word more. *)
Counts(out, word, comma) ==
    /\ Cardinality(Places(out, comma)) \in Nat
    /\ Cardinality(Places(Append(out, word), comma)) =
          IF word = comma THEN Cardinality(Places(out, comma)) + 1 ELSE Cardinality(Places(out, comma))

(* One word more is one place more for that word, and none for another. *)
LEMMA PlacesGrow ==
    ASSUME NEW S, NEW out \in Seq(S), NEW word \in S, NEW comma
    PROVE  Counts(out, word, comma)
<1> DEFINE longer == Append(out, word)
           old == Places(out, comma)
           new == Places(longer, comma)
<1>1. /\ Len(out) \in Nat /\ DOMAIN out = 1..Len(out)
      /\ longer \in Seq(S) /\ Len(longer) = Len(out) + 1
      /\ \A k \in 1..Len(out) : longer[k] = out[k]
      /\ longer[Len(out) + 1] = word
  BY AppendProperties, LenProperties
<1>2. DOMAIN longer = 1..Len(out) + 1
  BY <1>1, LenProperties
<1> HIDE DEF longer
<1>3. new = IF word = comma THEN old \cup {Len(out) + 1} ELSE old
  <2>1. \A k \in 1..Len(out) : k \in new <=> k \in old
    BY <1>1, <1>2 DEF Places
  <2>2. Len(out) + 1 \in new <=> word = comma
    BY <1>1, <1>2 DEF Places
  <2>3. new \subseteq 1..Len(out) + 1 /\ old \subseteq 1..Len(out)
    BY <1>1, <1>2 DEF Places
  <2> HIDE DEF new, old
  <2>4. \A k \in 1..Len(out) + 1 : k \in 1..Len(out) \/ k = Len(out) + 1
    BY <1>1
  <2>5. 1..Len(out) \subseteq 1..Len(out) + 1 /\ Len(out) + 1 \notin 1..Len(out)
    BY <1>1
  <2>6. CASE word = comma
    <3>1. \A k \in new : k \in old \cup {Len(out) + 1}
      BY <2>1, <2>3, <2>4, Zenon
    <3>2. \A k \in old : k \in new
      BY <2>1, <2>3, Zenon
    <3>3. Len(out) + 1 \in new
      BY <2>2, <2>6, Zenon
    <3>4. new = old \cup {Len(out) + 1}
      BY <3>1, <3>2, <3>3, Zenon
    <3> QED
      BY <2>6, <3>4, Zenon
  <2>7. CASE word # comma
    <3>1. \A k \in new : k \in old
      BY <2>1, <2>2, <2>3, <2>4, <2>7, Zenon
    <3>2. \A k \in old : k \in new
      BY <2>1, <2>3, Zenon
    <3>3. new = old
      BY <3>1, <3>2, Zenon
    <3> QED
      BY <2>7, <3>3, Zenon
  <2> QED
    BY <2>6, <2>7, Zenon
<1>4. old \subseteq 1..Len(out) /\ IsFiniteSet(1..Len(out))
  <2>1. old \subseteq 1..Len(out)
    BY <1>1 DEF Places
  <2>2. IsFiniteSet(1..Len(out))
    BY <1>1, FS_Interval
  <2> QED
    BY <2>1, <2>2
<1>5. IsFiniteSet(old)
  BY <1>4, FS_Subset
<1>6. Len(out) + 1 \notin old
  BY <1>1, <1>4
<1>7. Cardinality(old) \in Nat /\ Cardinality(old \cup {Len(out) + 1}) = Cardinality(old) + 1
  BY <1>5, <1>6, FS_AddElement, FS_CardinalityType
<1> QED
  BY <1>3, <1>7 DEF Counts, longer

Commas(out) == Cardinality(Places(out, ","))

(* A comma is one comma more, any other word is none. *)
LEMMA CommasGrow ==
    ASSUME NEW S, NEW out \in Seq(S), NEW word \in S
    PROVE  /\ Commas(out) \in Nat
           /\ Commas(Append(out, word)) = IF word = "," THEN Commas(out) + 1 ELSE Commas(out)
<1>1. \A comma : Counts(out, word, comma)
  BY PlacesGrow
<1>2. Counts(out, word, ",")
  BY <1>1, Zenon
<1> QED
  BY <1>2, Zenon DEF Counts, Commas

(* Nothing printed has no commas. *)
LEMMA NoCommas == Commas(<<>>) = 0
<1>1. Places(<<>>, ",") = {}
  BY DEF Places
<1> QED
  BY <1>1, FS_EmptySet DEF Commas

(* What the latest round prints: it begins with a comma, and ends with a mark, or not. *)
Printed(out, comma, name, mark) ==
    out \o ((IF comma THEN <<",">> ELSE <<>>) \o <<name>> \o (IF mark THEN <<"(d)">> ELSE <<>>))

JoinsTo(out, comma, name, mark) ==
    /\ out \o ((<<>> \o <<name>>) \o <<>>) = Append(out, name)
    /\ out \o ((<<>> \o <<name>>) \o <<mark>>) = Append(Append(out, name), mark)
    /\ out \o ((<<comma>> \o <<name>>) \o <<>>) = Append(Append(out, comma), name)
    /\ out \o ((<<comma>> \o <<name>>) \o <<mark>>) = Append(Append(Append(out, comma), name), mark)

(* What is joined to the list is appended to it word by word. *)
LEMMA JoinedTo ==
    ASSUME NEW S, NEW out \in Seq(S), NEW comma \in S, NEW name \in S, NEW mark \in S
    PROVE  JoinsTo(out, comma, name, mark)
<1>1. out \o ((<<>> \o <<name>>) \o <<>>) = Append(out, name)
  OBVIOUS
<1>2. out \o ((<<>> \o <<name>>) \o <<mark>>) = Append(Append(out, name), mark)
  OBVIOUS
<1>3. out \o ((<<comma>> \o <<name>>) \o <<>>) = Append(Append(out, comma), name)
  OBVIOUS
<1>4. out \o ((<<comma>> \o <<name>>) \o <<mark>>) = Append(Append(Append(out, comma), name), mark)
  BY SMTT(30)
<1> QED
  BY <1>1, <1>2, <1>3, <1>4 DEF JoinsTo

PrintsWords(S, out, comma, name, mark) ==
    \E begun \in Seq(S), named \in Seq(S) :
        /\ begun = IF comma THEN Append(out, ",") ELSE out
        /\ named = Append(begun, name)
        /\ Printed(out, comma, name, mark) = IF mark THEN Append(named, "(d)") ELSE named

(* The latest round appends its comma, its name and its mark. *)
LEMMA PrintedIs ==
    ASSUME NEW S, NEW out \in Seq(S), "," \in S, "(d)" \in S, NEW name \in S,
           NEW comma \in BOOLEAN, NEW mark \in BOOLEAN
    PROVE  PrintsWords(S, out, comma, name, mark)
<1> DEFINE begun == IF comma THEN Append(out, ",") ELSE out
           named == Append(begun, name)
<1>1. begun \in Seq(S)
  BY AppendProperties
<1>2. named \in Seq(S)
  <2> HIDE DEF begun
  <2> QED
    BY <1>1, AppendProperties
<1>3. PICK x \in S, y \in S : x = "," /\ y = "(d)"
  OBVIOUS
<1>4. Printed(out, comma, name, mark) =
         out \o ((IF comma THEN <<x>> ELSE <<>>) \o <<name>> \o (IF mark THEN <<y>> ELSE <<>>))
  BY <1>3, Zenon DEF Printed
<1>5. begun = IF comma THEN Append(out, x) ELSE out
  BY <1>3
<1>6. JoinsTo(out, x, name, y)
  BY JoinedTo
<1>7. Printed(out, comma, name, mark) = IF mark THEN Append(named, y) ELSE named
  <2> HIDE DEF begun
  <2>1. CASE comma /\ mark
    <3>1. Printed(out, comma, name, mark) = out \o ((<<x>> \o <<name>>) \o <<y>>)
      BY <1>4, <2>1, Zenon
    <3>2. out \o ((<<x>> \o <<name>>) \o <<y>>) = Append(Append(Append(out, x), name), y)
      BY <1>6, Zenon DEF JoinsTo
    <3>3. begun = Append(out, x)
      BY <1>5, <2>1, Zenon
    <3> QED
      BY <2>1, <3>1, <3>2, <3>3
  <2>2. CASE comma /\ ~mark
    <3>1. Printed(out, comma, name, mark) = out \o ((<<x>> \o <<name>>) \o <<>>)
      BY <1>4, <2>2, Zenon
    <3>2. out \o ((<<x>> \o <<name>>) \o <<>>) = Append(Append(out, x), name)
      BY <1>6, Zenon DEF JoinsTo
    <3>3. begun = Append(out, x)
      BY <1>5, <2>2, Zenon
    <3> QED
      BY <2>2, <3>1, <3>2, <3>3
  <2>3. CASE ~comma /\ mark
    <3>1. Printed(out, comma, name, mark) = out \o ((<<>> \o <<name>>) \o <<y>>)
      BY <1>4, <2>3, Zenon
    <3>2. out \o ((<<>> \o <<name>>) \o <<y>>) = Append(Append(out, name), y)
      BY <1>6, Zenon DEF JoinsTo
    <3>3. begun = out
      BY <1>5, <2>3, Zenon
    <3> QED
      BY <2>3, <3>1, <3>2, <3>3
  <2>4. CASE ~comma /\ ~mark
    <3>1. Printed(out, comma, name, mark) = out \o ((<<>> \o <<name>>) \o <<>>)
      BY <1>4, <2>4, Zenon
    <3>2. out \o ((<<>> \o <<name>>) \o <<>>) = Append(out, name)
      BY <1>6, Zenon DEF JoinsTo
    <3>3. begun = out
      BY <1>5, <2>4, Zenon
    <3> QED
      BY <2>4, <3>1, <3>2, <3>3
  <2> QED
    BY <2>1, <2>2, <2>3, <2>4
<1> QED
  BY <1>1, <1>2, <1>3, <1>7 DEF PrintsWords

(* The list of the first n names: without its marks it is these names without the
   dots, and there is a comma between two of them. *)
ListOf(kept, out) ==
    /\ Without(out, Marks) = kept
    /\ Commas(out) = IF kept = <<>> THEN 0 ELSE Len(kept) - 1
    /\ IF kept = <<>> THEN out = <<>> ELSE out # <<>> /\ out[1] = kept[1]

NamesUpTo(names, n) == Without(SubSeq(names, 1, n), Dots)

Listed(names, n, passed, out) ==
    /\ n \in 0..Len(names) /\ passed \in Nat
    /\ out \in Seq(Range(names) \cup Marks)
    /\ passed + Len(NamesUpTo(names, n)) = n
    /\ ListOf(NamesUpTo(names, n), out)

(* Directories have no name that is a mark. *)
NamesOnly(names) == names \in Seq(Range(names) \ Marks)

(* Before the first round. *)
LEMMA NothingListed ==
    ASSUME NEW names, NamesOnly(names)
    PROVE  Listed(names, 0, 0, <<>>)
<1>1. Len(names) \in Nat
  BY LenProperties DEF NamesOnly
<1>2. SubSeq(names, 1, 0) = <<>>
  BY DEF NamesOnly
<1>3. Without(<<>>, Dots) = <<>> /\ Without(<<>>, Marks) = <<>>
  BY WithoutNothing
<1>4. NamesUpTo(names, 0) = <<>>
  BY <1>2, <1>3, Zenon DEF NamesUpTo
<1>5. <<>> \in Seq(Range(names) \cup Marks) /\ Len(<<>>) = 0
  BY EmptySeq
<1>6. ListOf(<<>>, <<>>)
  BY <1>3, NoCommas DEF ListOf
<1>7. 0 + Len(NamesUpTo(names, 0)) = 0
  BY <1>4, <1>5
<1> QED
  BY <1>1, <1>4, <1>5, <1>6, <1>7 DEF Listed

(* The names so far and the next one. *)
LEMMA OneNameMore ==
    ASSUME NEW S, NEW names \in Seq(S), NEW n \in 0..Len(names), n < Len(names)
    PROVE  /\ SubSeq(names, 1, n) \in Seq(S) /\ names[n + 1] \in S
           /\ SubSeq(names, 1, n + 1) = Append(SubSeq(names, 1, n), names[n + 1])
<1>1. Len(names) \in Nat /\ n + 1 \in 1..Len(names) /\ n \in Nat
  BY LenProperties
<1>2. names[n + 1] \in S /\ \A k \in 1..Len(names) : names[k] \in S
  BY <1>1, ElementOfSeq
<1>3. /\ SubSeq(names, 1, n) \in Seq(S) /\ Len(SubSeq(names, 1, n)) = n
      /\ \A k \in 1..n : SubSeq(names, 1, n)[k] = names[k]
  <2>1. n \in Int /\ 1 \in Int /\ \A k \in 1..n : names[k] \in S
    BY <1>1, <1>2
  <2>2. /\ SubSeq(names, 1, n) \in Seq(S)
        /\ Len(SubSeq(names, 1, n)) = IF 1 <= n THEN n - 1 + 1 ELSE 0
        /\ \A k \in 1..n - 1 + 1 : SubSeq(names, 1, n)[k] = names[1 + k - 1]
    BY <2>1, SubSeqProperties
  <2> QED
    BY <1>1, <2>2
<1>4. PICK m \in Nat : m = n + 1
  BY <1>1
<1>5. /\ SubSeq(names, 1, m) \in Seq(S) /\ Len(SubSeq(names, 1, m)) = n + 1
      /\ \A k \in 1..n + 1 : SubSeq(names, 1, m)[k] = names[k]
  <2>1. m \in Int /\ 1 \in Int /\ \A k \in 1..m : names[k] \in S
    BY <1>1, <1>2, <1>4
  <2>2. /\ SubSeq(names, 1, m) \in Seq(S)
        /\ Len(SubSeq(names, 1, m)) = IF 1 <= m THEN m - 1 + 1 ELSE 0
        /\ \A k \in 1..m - 1 + 1 : SubSeq(names, 1, m)[k] = names[1 + k - 1]
    BY <2>1, SubSeqProperties
  <2> QED
    BY <1>1, <1>4, <2>2
<1>6. /\ Append(SubSeq(names, 1, n), names[n + 1]) \in Seq(S)
      /\ Len(Append(SubSeq(names, 1, n), names[n + 1])) = n + 1
      /\ \A k \in 1..n : Append(SubSeq(names, 1, n), names[n + 1])[k] = names[k]
      /\ Append(SubSeq(names, 1, n), names[n + 1])[n + 1] = names[n + 1]
  BY <1>2, <1>3, AppendProperties
<1>7. SubSeq(names, 1, m) = Append(SubSeq(names, 1, n), names[n + 1])
  <2>1. \A k \in 1..n + 1 : SubSeq(names, 1, m)[k] = Append(SubSeq(names, 1, n), names[n + 1])[k]
    BY <1>1, <1>5, <1>6
  <2> QED
    BY <1>5, <1>6, <2>1, SeqEqual
<1> QED
  BY <1>2, <1>3, <1>4, <1>7

(* What is passed over by the next round. *)
LEMMA DotPassed ==
    ASSUME NEW names, NamesOnly(names), NEW n, NEW passed, NEW out, Listed(names, n, passed, out),
           n < Len(names), names[n + 1] \in Dots
    PROVE  Listed(names, n + 1, passed + 1, out)
<1> DEFINE S == Range(names) \ Marks
           name == names[n + 1]
           kept == NamesUpTo(names, n)
<1>1. /\ n \in 0..Len(names) /\ passed \in Nat /\ passed + Len(kept) = n
      /\ out \in Seq(Range(names) \cup Marks) /\ ListOf(kept, out)
  BY DEF Listed
<1>2. names \in Seq(S) /\ Len(names) \in Nat
  BY LenProperties DEF NamesOnly
<1>3. /\ SubSeq(names, 1, n) \in Seq(S) /\ name \in S
      /\ SubSeq(names, 1, n + 1) = Append(SubSeq(names, 1, n), name)
  <2> HIDE DEF S
  <2> QED
    BY <1>1, <1>2, OneNameMore
<1>4. NamesUpTo(names, n + 1) = kept
  <2>1. PICK front \in Seq(S), x \in S : front = SubSeq(names, 1, n) /\ x = name
    BY <1>3, Zenon
  <2>2. Without(Append(front, x), Dots) = Without(front, Dots)
    <3>1. x \in Dots
      BY <2>1, Zenon
    <3> HIDE DEF S
    <3> QED
      BY <3>1, WithoutAppend
  <2> QED
    BY <1>3, <2>1, <2>2, Zenon DEF NamesUpTo
<1>5. ListOf(NamesUpTo(names, n + 1), out)
  BY <1>1, <1>4, Zenon
<1>6. kept \in Seq(S) /\ Len(kept) \in Nat
  <2>1. kept \in Seq(S)
    <3> HIDE DEF S
    <3> QED
      BY <1>3, WithoutType DEF NamesUpTo
  <2> QED
    BY <2>1, LenProperties
<1>7. n + 1 \in 0..Len(names) /\ passed + 1 \in Nat
  BY <1>1, <1>2
<1>8. (passed + 1) + Len(NamesUpTo(names, n + 1)) = n + 1
  <2> HIDE DEF kept
  <2> QED
    BY <1>1, <1>4, <1>6
<1> QED
  BY <1>1, <1>5, <1>7, <1>8, Zenon DEF Listed

(* What the next round prints: a name that is no dot, with a comma before it unless
   all the names before it were dots. *)
LEMMA NameListed ==
    ASSUME NEW names, NamesOnly(names), NEW n, NEW passed, NEW out, Listed(names, n, passed, out),
           n < Len(names), names[n + 1] \notin Dots, NEW mark \in BOOLEAN
    PROVE  Listed(names, n + 1, passed, Printed(out, n > passed, names[n + 1], mark))
<1> DEFINE S == Range(names) \ Marks
           W == Range(names) \cup Marks
           name == names[n + 1]
           kept == NamesUpTo(names, n)
           longer == NamesUpTo(names, n + 1)
<1>1. /\ n \in 0..Len(names) /\ passed \in Nat /\ passed + Len(kept) = n
      /\ out \in Seq(W) /\ ListOf(kept, out)
  BY DEF Listed
<1>2. names \in Seq(S) /\ Len(names) \in Nat
  BY LenProperties DEF NamesOnly
<1>3. /\ SubSeq(names, 1, n) \in Seq(S) /\ name \in S
      /\ SubSeq(names, 1, n + 1) = Append(SubSeq(names, 1, n), name)
  <2> HIDE DEF S
  <2> QED
    BY <1>1, <1>2, OneNameMore
<1>4. kept \in Seq(S) /\ Len(kept) \in Nat
  <2>1. kept \in Seq(S)
    <3> HIDE DEF S
    <3> QED
      BY <1>3, WithoutType DEF NamesUpTo
  <2> QED
    BY <2>1, LenProperties
<1>5. longer = Append(kept, name)
  <2>1. PICK front \in Seq(S), x \in S : front = SubSeq(names, 1, n) /\ x = name
    BY <1>3, Zenon
  <2>2. Without(Append(front, x), Dots) = Append(Without(front, Dots), x)
    <3>1. x \notin Dots
      BY <2>1, Zenon
    <3> HIDE DEF S
    <3> QED
      BY <3>1, WithoutAppend
  <2> QED
    BY <1>3, <2>1, <2>2, Zenon DEF NamesUpTo
<1>6. /\ longer \in Seq(S) /\ longer # <<>> /\ Len(longer) = Len(kept) + 1
      /\ kept # <<>> => longer[1] = kept[1]
      /\ kept = <<>> => longer[1] = name
  <2>1. PICK k \in Seq(S), x \in S : k = kept /\ x = name
    BY <1>3, <1>4, Zenon
  <2>2. /\ Append(k, x) \in Seq(S) /\ Append(k, x) # <<>> /\ Len(Append(k, x)) = Len(k) + 1
        /\ \A j \in 1..Len(k) : Append(k, x)[j] = k[j]
        /\ Append(k, x)[Len(k) + 1] = x
    <3> HIDE DEF S
    <3> QED
      BY AppendProperties
  <2>3. k # <<>> => 1 \in 1..Len(k)
    BY EmptySeq
  <2>4. k = <<>> => Len(k) + 1 = 1
    BY EmptySeq
  <2>5. k # <<>> => Append(k, x)[1] = k[1]
    BY <2>2, <2>3, Zenon
  <2>6. k = <<>> => Append(k, x)[1] = x
    BY <2>2, <2>4, Zenon
  <2> QED
    BY <1>5, <2>1, <2>2, <2>5, <2>6, Zenon
<1>7. n > passed <=> kept # <<>>
  <2>1. kept # <<>> <=> Len(kept) # 0
    <3> HIDE DEF S
    <3> QED
      BY <1>4, EmptySeq
  <2> HIDE DEF kept
  <2> QED
    BY <1>1, <1>4, <2>1
<1>8. PICK begun \in Seq(W), named \in Seq(W) :
         /\ begun = IF n > passed THEN Append(out, ",") ELSE out
         /\ named = Append(begun, name)
         /\ Printed(out, n > passed, name, mark) = IF mark THEN Append(named, "(d)") ELSE named
  <2>1. PICK o \in Seq(W), x \in W, comma \in BOOLEAN : o = out /\ x = name /\ comma = (n > passed)
    <3>1. name \in W
      BY <1>3
    <3>2. (n > passed) \in BOOLEAN
      OBVIOUS
    <3> QED
      BY <1>1, <3>1, <3>2, Zenon
  <2>2. "," \in W /\ "(d)" \in W
    BY DEF Marks
  <2>3. \E begun \in Seq(W), named \in Seq(W) :
              /\ begun = IF comma THEN Append(o, ",") ELSE o
              /\ named = Append(begun, x)
              /\ Printed(o, comma, x, mark) = IF mark THEN Append(named, "(d)") ELSE named
    <3>1. PrintsWords(W, o, comma, x, mark)
      <4> HIDE DEF W
      <4> QED
        BY <2>2, PrintedIs, Zenon
    <3> QED
      BY <3>1, Zenon DEF PrintsWords
  <2> QED
    BY <2>1, <2>3, Zenon
<1>9. PICK x \in W : x = name /\ x \notin Marks /\ x # ","
  BY <1>3 DEF Marks
<1>10. PICK comma \in W : comma = "," /\ comma \in Marks
  BY DEF Marks
<1>11. PICK dir \in W : dir = "(d)" /\ dir \in Marks /\ dir # ","
  BY DEF Marks
<1> DEFINE last == IF mark THEN Append(named, dir) ELSE named
<1>12. last = Printed(out, n > passed, name, mark)
  BY <1>8, <1>11
<1>13. begun = IF kept # <<>> THEN Append(out, comma) ELSE out
  BY <1>7, <1>8, <1>10
<1>14. named = Append(begun, x)
  BY <1>8, <1>9
<1>15. last \in Seq(W)
  <2> HIDE DEF W
  <2> QED
    BY AppendProperties
<1>16. Without(last, Marks) = longer
  <2> HIDE DEF W, kept, longer
  <2>1. Without(out, Marks) = kept
    BY <1>1 DEF ListOf, kept
  <2>2. Without(begun, Marks) = kept
    <3>1. Without(Append(out, comma), Marks) = Without(out, Marks)
      BY <1>1, <1>10, WithoutAppend
    <3> QED
      BY <1>13, <2>1, <3>1
  <2>3. Without(Append(begun, x), Marks) = Append(Without(begun, Marks), x)
    <3>1. x \notin Marks
      BY <1>9
    <3> QED
      BY <3>1, WithoutAppend
  <2>4. Without(named, Marks) = longer
    BY <1>5, <1>9, <1>14, <2>2, <2>3
  <2>5. Without(Append(named, dir), Marks) = Without(named, Marks)
    BY <1>11, WithoutAppend
  <2> QED
    BY <2>4, <2>5
<1>17. Commas(last) = Len(longer) - 1
  <2> HIDE DEF W, kept, longer
  <2>1. Commas(out) = (IF kept = <<>> THEN 0 ELSE Len(kept) - 1) /\ Commas(out) \in Nat
    BY <1>1, CommasGrow DEF ListOf, kept
  <2>2. Commas(Append(out, comma)) = Commas(out) + 1
    BY <1>1, <1>10, CommasGrow
  <2>3. Commas(Append(begun, x)) = Commas(begun)
    BY <1>9, CommasGrow
  <2>4. Commas(Append(named, dir)) = Commas(named)
    BY <1>11, CommasGrow
  <2>5. Commas(last) = Commas(begun)
    BY <1>14, <2>3, <2>4
  <2>6. CASE kept = <<>>
    <3>1. Len(kept) = 0
      BY <2>6, EmptySeq
    <3>2. Commas(begun) = 0
      BY <1>13, <2>1, <2>6
    <3> QED
      BY <1>6, <2>5, <3>1, <3>2
  <2>7. CASE kept # <<>>
    <3>1. Commas(begun) = (Len(kept) - 1) + 1
      BY <1>13, <2>1, <2>2, <2>7
    <3> QED
      BY <1>4, <1>6, <2>5, <3>1
  <2> QED
    BY <2>6, <2>7
<1>18. last # <<>> /\ last[1] = longer[1]
  <2> HIDE DEF W, kept, longer
  <2>1. /\ kept = <<>> => out = <<>>
        /\ kept # <<>> => out # <<>> /\ out[1] = kept[1]
    BY <1>1 DEF ListOf, kept
  <2>2. \A t \in Seq(W), y \in W :
           /\ Append(t, y) # <<>>
           /\ t # <<>> => Append(t, y)[1] = t[1]
           /\ t = <<>> => Append(t, y)[1] = y
    <3> TAKE t \in Seq(W), y \in W
    <3>1. /\ Append(t, y) # <<>>
          /\ \A j \in 1..Len(t) : Append(t, y)[j] = t[j]
          /\ Append(t, y)[Len(t) + 1] = y
      BY AppendProperties
    <3>2. t # <<>> => 1 \in 1..Len(t)
      BY EmptySeq
    <3>3. t = <<>> => Len(t) + 1 = 1
      BY EmptySeq
    <3> QED
      BY <3>1, <3>2, <3>3, Zenon
  <2>3. named # <<>> /\ named[1] = longer[1]
    <3>1. CASE kept = <<>>
      BY <1>6, <1>9, <1>13, <1>14, <2>1, <2>2, <3>1, Zenon
    <3>2. CASE kept # <<>>
      <4>1. begun # <<>> /\ begun[1] = out[1]
        BY <1>1, <1>13, <2>1, <2>2, <3>2, Zenon
      <4> QED
        BY <1>6, <1>14, <2>1, <2>2, <3>2, <4>1, Zenon
    <3> QED
      BY <3>1, <3>2
  <2>4. Append(named, dir) # <<>> /\ Append(named, dir)[1] = named[1]
    BY <2>2, <2>3, Zenon
  <2> QED
    BY <2>3, <2>4
<1>19. ListOf(longer, last)
  <2> HIDE DEF last, longer
  <2> QED
    BY <1>6, <1>16, <1>17, <1>18, Zenon DEF ListOf
<1>20. n + 1 \in 0..Len(names)
  BY <1>1, <1>2
<1>21. passed + Len(longer) = n + 1
  <2>1. Len(longer) = Len(kept) + 1 /\ passed + Len(kept) = n /\ Len(kept) \in Nat
    BY <1>1, <1>4, <1>6, Zenon
  <2>2. passed \in Nat /\ n \in Nat
    BY <1>1
  <2> HIDE DEF kept, longer
  <2> QED
    BY <2>1, <2>2
<1>22. Listed(names, n + 1, passed, last)
  <2> HIDE DEF last
  <2> QED
    BY <1>1, <1>15, <1>19, <1>20, <1>21, Zenon DEF Listed
<1> QED
  BY <1>12, <1>22, Zenon
-----------------------------------------------------------------------------
(* What a command has printed at each place, and which command it is. *)
PrintedInStep ==
    /\ pc \in Commands \cup {"prompt", "parse", "unknown"} => printed = <<>>
    /\ pc \in Commands => Command[pc] = command
    /\ pc = "unknown" => \A name \in Commands : Command[name] # command
    /\ pc = "list" => command = Command["ls"] /\ Exists /\ Listed(Names, i, limit, printed)
    /\ pc = "free" /\ command = Command["ls"] /\ Len(arguments) >= 2 /\ Path \in DOMAIN Directories =>
          Listed(Names, Len(Names), limit, printed)

(* Commands are told apart by their words. *)
LEMMA WordsDiffer ==
    ASSUME NEW a \in Commands, NEW b \in Commands, Command[a] = Command[b]
    PROVE  a = b
BY CommandsAre, ShellAssumption DEF IsInjective

(* What there is to read at a path are names. *)
LEMMA NamesAre == NamesOnly(Names) /\ Len(Names) \in Nat
<1>1. CASE Path \in DOMAIN Directories
  <2>1. Names \in Seq(Range(Names) \ Marks)
    BY <1>1, ShellAssumption DEF Names, Marks
  <2> QED
    BY <2>1, LenProperties DEF NamesOnly
<1>2. CASE Path \notin DOMAIN Directories
  <2>1. Names = <<>>
    BY <1>2 DEF Names
  <2> QED
    BY <2>1, EmptySeq DEF NamesOnly
<1> QED
  BY <1>1, <1>2

(* The end of a command that lists nothing. *)
LEMMA OthersEnd ==
    ASSUME PrintedInStep, pc \in (Commands \ {"ls"}) \cup {"unknown"}, pc' \in {"free", "panic"},
           command' = command
    PROVE  PrintedInStep'
<1>1. "ls" \in Commands
  BY DEF Commands
<1>2. command # Command["ls"]
  <2>1. CASE pc \in Commands \ {"ls"}
    BY <1>1, <2>1, WordsDiffer DEF PrintedInStep
  <2>2. CASE pc = "unknown"
    BY <1>1, <2>2 DEF PrintedInStep
  <2> QED
    BY <2>1, <2>2
<1> QED
  BY <1>2 DEF PrintedInStep, Commands

(* A command is found by its word. *)
LEMMA ParsedCommand ==
    ASSUME PrintedInStep, Parse
    PROVE  PrintedInStep'
<1>1. pc = "parse" /\ printed' = <<>>
  BY DEF Parse, PrintedInStep
<1> DEFINE some == \E name \in DOMAIN Command : Command[name] = command'
           it == CHOOSE name \in DOMAIN Command : Command[name] = command'
<1>2. pc' \in {"heap overrun"} \/ pc' = IF some THEN it ELSE "unknown"
  BY DEF Parse
<1>3. some => it \in DOMAIN Command /\ Command[it] = command'
  OBVIOUS
<1>4. "unknown" \notin Commands /\ "heap overrun" \notin Commands
  BY DEF Commands
<1> HIDE DEF it
<1>5. pc' \in Commands \cup {"unknown", "heap overrun"}
  BY <1>2, <1>3, CommandsAre
<1>6. pc' \in Commands => Command[pc'] = command'
  BY <1>2, <1>3, <1>4
<1>7. pc' = "unknown" => \A name \in Commands : Command[name] # command'
  BY <1>2, <1>3, <1>4, CommandsAre
<1> QED
  BY <1>1, <1>5, <1>6, <1>7 DEF PrintedInStep, Commands

(* One round of ls. *)
LEMMA RoundLists ==
    ASSUME PrintedInStep, ListName
    PROVE  PrintedInStep'
<1> DEFINE name == Names[i + 1]
           sub == name \in SubDirectories
<1>1. /\ pc = "list" /\ pc' = "list" /\ i < Len(Names) /\ i' = i + 1
      /\ UNCHANGED <<command, arguments>>
      /\ IF name \in Dots THEN limit' = limit + 1 /\ printed' = printed
         ELSE printed' = Printed(printed, i > limit, name, sub) /\ limit' = limit
  BY DEF ListName, GoesTo, info, Say, Printed
<1>2. command = Command["ls"] /\ Exists /\ Listed(Names, i, limit, printed)
  BY <1>1 DEF PrintedInStep
<1>3. Names' = Names /\ Exists' = Exists
  BY <1>1 DEF Names, Exists, Path
<1>4. NamesOnly(Names)
  BY NamesAre
<1>5. PICK names \in {Names}, n \in {i}, passed \in {limit}, out \in {printed}, mark \in BOOLEAN :
         names = Names /\ n = i /\ passed = limit /\ out = printed /\ mark = sub
  <2>1. sub \in BOOLEAN
    OBVIOUS
  <2> HIDE DEF sub
  <2> QED
    BY <2>1, Zenon
<1>6. /\ NamesOnly(names) /\ Listed(names, n, passed, out) /\ n < Len(names)
  BY <1>1, <1>2, <1>4, <1>5, Zenon
<1>7. Listed(Names, i', limit', printed')
  <2>1. CASE name \in Dots
    <3>1. Listed(names, n + 1, passed + 1, out)
      <4>1. names[n + 1] \in Dots
        BY <1>5, <2>1, Zenon
      <4> QED
        BY <1>6, <4>1, DotPassed
    <3> QED
      BY <1>1, <1>5, <2>1, <3>1, Zenon
  <2>2. CASE name \notin Dots
    <3>1. Listed(names, n + 1, passed, Printed(out, n > passed, names[n + 1], mark))
      <4>1. names[n + 1] \notin Dots
        BY <1>5, <2>2, Zenon
      <4> QED
        BY <1>6, <4>1, NameListed
    <3> QED
      BY <1>1, <1>5, <2>2, <3>1, Zenon
  <2> QED
    BY <2>1, <2>2
<1> QED
  BY <1>1, <1>2, <1>3, <1>7 DEF PrintedInStep, Commands

(* What is printed at each place, whatever was typed; ls has gone as far as its loop. *)
THEOREM ShellPrintedInStep == Spec => []PrintedInStep
<1>1. Init => PrintedInStep
  BY DEF Init, PrintedInStep, Commands
<1>2. PrintedInStep /\ [Next]_vars => PrintedInStep'
  <2> SUFFICES ASSUME PrintedInStep, [Next]_vars PROVE PrintedInStep'
    OBVIOUS
  <2>1. CASE ReadKey
    <3>1. pc = "prompt" /\ printed' = printed
      BY <2>1 DEF ReadKey
    <3>2. pc' \in {"prompt", "parse"}
      BY <2>1 DEF ReadKey, Enter, Erase, Put
    <3> QED
      BY <3>1, <3>2 DEF PrintedInStep, Commands
  <2>2. CASE Parse
    BY <2>2, ParsedCommand
  <2>3. CASE Message
    <3>1. pc \in (Commands \ {"ls"}) \cup {"unknown"} /\ pc' = "free" /\ command' = command
      BY <2>3 DEF Message, GoesTo, info, Commands
    <3> QED
      BY <3>1, OthersEnd
  <2>4. CASE Echo
    <3>1. pc \in (Commands \ {"ls"}) \cup {"unknown"} /\ pc' = "free" /\ command' = command
      BY <2>4 DEF Echo, GoesTo, info, Commands
    <3> QED
      BY <3>1, OthersEnd
  <2>5. CASE Page
    <3>1. pc \in (Commands \ {"ls"}) \cup {"unknown"} /\ pc' \in {"free", "panic"} /\ command' = command
      BY <2>5 DEF Page, info, Commands
    <3> QED
      BY <3>1, OthersEnd
  <2>6. CASE (NoFile /\ pc = "print") \/ PrintFile
    <3>1. pc \in (Commands \ {"ls"}) \cup {"unknown"} /\ pc' = "free" /\ command' = command
      BY <2>6 DEF NoFile, PrintFile, GoesTo, info, Commands
    <3> QED
      BY <3>1, OthersEnd
  <2>7. CASE NoFile /\ pc = "ls"
    <3>1. pc' = "free" /\ ~Exists /\ UNCHANGED arguments
      BY <2>7 DEF NoFile, GoesTo, info
    <3> QED
      BY <3>1 DEF PrintedInStep, Exists, Path, Commands
  <2>8. CASE OpenDirectory
    <3>1. /\ pc = "ls" /\ pc' = "list" /\ Exists /\ i' = 0 /\ limit' = 0
          /\ UNCHANGED <<command, arguments, printed>>
      BY <2>8 DEF OpenDirectory, GoesTo, info
    <3>2. printed' = <<>> /\ command' = Command["ls"]
      BY <3>1 DEF PrintedInStep, Commands
    <3>3. Exists' /\ Names' = Names
      BY <3>1 DEF Exists, Names, Path
    <3>4. Listed(Names, 0, 0, <<>>)
      <4>1. PICK names \in {Names} : names = Names
        OBVIOUS
      <4>2. NamesOnly(names)
        BY <4>1, NamesAre, Zenon
      <4>3. Listed(names, 0, 0, <<>>)
        BY <4>2, NothingListed
      <4> QED
        BY <4>1, <4>3, Zenon
    <3> QED
      BY <3>1, <3>2, <3>3, <3>4 DEF PrintedInStep, Commands
  <2>9. CASE ListName
    BY <2>9, RoundLists
  <2>10. CASE ListEnds
    <3>1. /\ pc = "list" /\ pc' = "free" /\ i >= Len(Names)
          /\ UNCHANGED <<command, arguments, limit, printed>>
      BY <2>10 DEF ListEnds, GoesTo, info, loop
    <3>2. Listed(Names, i, limit, printed)
      BY <3>1 DEF PrintedInStep
    <3>3. i = Len(Names)
      BY <3>1, <3>2, NamesAre DEF Listed
    <3>4. Names' = Names
      BY <3>1 DEF Names, Path
    <3> QED
      BY <3>1, <3>2, <3>3, <3>4 DEF PrintedInStep, Commands
  <2>11. CASE FreeCommandInfo
    <3>1. pc' = "prompt" /\ printed' = <<>>
      BY <2>11 DEF FreeCommandInfo
    <3> QED
      BY <3>1 DEF PrintedInStep, Commands
  <2>12. CASE Stopped \/ UNCHANGED vars
    <3>1. UNCHANGED <<pc, command, arguments, i, limit, printed>>
      BY <2>12 DEF Stopped, vars, info, loop
    <3> QED
      BY <3>1 DEF PrintedInStep, Exists, Names, Path
  <2> QED
    BY <2>1, <2>2, <2>3, <2>4, <2>5, <2>6, <2>7, <2>8, <2>9, <2>10, <2>11, <2>12
    DEF Next, Run, NoFile
<1> QED
  BY <1>1, <1>2, PTL DEF Spec

(* ls prints all the names of the directory but the dots, with a comma between two of
   them, however many dots there are and wherever they stand. *)
THEOREM ShellListsDirectory == Spec => []ListsDirectory
<1>1. PrintedInStep => ListsDirectory
  <2> SUFFICES ASSUME PrintedInStep, pc = "free", command = Command["ls"], Len(arguments) >= 2,
                      arguments[2] \in DOMAIN Directories
               PROVE  LET names == Without(Directories[arguments[2]], Dots) IN
                      /\ Without(printed, {",", "(d)"}) = names
                      /\ Cardinality({k \in DOMAIN printed : printed[k] = ","}) = Max({0, Len(names) - 1})
                      /\ names # <<>> => printed[1] = names[1]
    BY Zenon DEF ListsDirectory
  <2> DEFINE kept == Without(Directories[arguments[2]], Dots)
  <2>1. Path = arguments[2] /\ Names = Directories[arguments[2]]
    BY DEF Path, Names
  <2>2. Listed(Names, Len(Names), limit, printed)
    BY <2>1 DEF PrintedInStep
  <2>3. Names \in Seq(Range(Names) \ Marks)
    BY NamesAre DEF NamesOnly
  <2>4. SubSeq(Names, 1, Len(Names)) = Names
    BY <2>3
  <2>5. NamesUpTo(Names, Len(Names)) = kept
    BY <2>1, <2>4, Zenon DEF NamesUpTo
  <2>6. ListOf(kept, printed)
    BY <2>2, <2>5, Zenon DEF Listed
  <2>7. kept \in Seq(Range(Names) \ Marks)
    <3>1. PICK names \in {Names}, S \in {Range(Names) \ Marks} : names = Names /\ S = Range(Names) \ Marks
      OBVIOUS
    <3>2. Without(names, Dots) \in Seq(S)
      BY <2>3, <3>1, WithoutType
    <3> QED
      BY <2>1, <3>1, <3>2, Zenon
  <2>8. Len(kept) \in Nat /\ (kept # <<>> <=> Len(kept) # 0)
    <3> HIDE DEF kept
    <3> QED
      BY <2>7, EmptySeq, LenProperties
  <2> HIDE DEF kept
  <2>9. Max({0, Len(kept) - 1}) = IF kept = <<>> THEN 0 ELSE Len(kept) - 1
    <3> DEFINE T == {0, Len(kept) - 1}
               m == IF kept = <<>> THEN 0 ELSE Len(kept) - 1
    <3>1. m \in T /\ \A y \in T : m >= y
      BY <2>8
    <3>2. \A x \in T : (\A y \in T : x >= y) => x = m
      BY <2>8, <3>1
    <3>3. Max(T) \in T /\ \A y \in T : Max(T) >= y
      <4> HIDE DEF T, m
      <4> QED
        BY <3>1, Zenon DEF Max
    <3> QED
      BY <3>2, <3>3, Zenon
  <2>10. /\ Without(printed, Marks) = kept
         /\ Commas(printed) = Max({0, Len(kept) - 1})
         /\ kept # <<>> => printed[1] = kept[1]
    BY <2>6, <2>9 DEF ListOf
  <2> QED
    BY <2>10, Zenon DEF kept, Commas, Places, Marks
<1> QED
  BY <1>1, ShellPrintedInStep, PTL

-----------------------------------------------------------------------------
(* The string library *)

(* What a cell holds, and what memory is. *)
Value == Character \cup {0}
Memory == [Addr -> Value]

(* The numbers memory is made of. *)
LEMMA MemoryIs == Size \in Nat \ {0} /\ Value \subseteq Nat /\ Addr \subseteq Nat /\ Addr = 0..Size - 1
  BY StringsAssumption DEF Addr, Value

(* The smaller one of two numbers. *)
LEMMA MinOfTwo ==
    ASSUME NEW a \in Nat, NEW b \in Nat
    PROVE  /\ Min({a, b}) \in {a, b} /\ Min({a, b}) \in Nat
           /\ Min({a, b}) <= a /\ Min({a, b}) <= b
<1>1. PICK k : k = Min({a, b})
  OBVIOUS
<1>2. k \in {a, b} /\ \A x \in {a, b} : k <= x
  BY <1>1, MinIs
<1> QED
  BY <1>1, <1>2

(* At p there are l characters and the terminator. *)
TextAt(m, p, l) ==
    /\ l \in Nat /\ p + l < Size /\ m[p + l] = 0
    /\ \A h \in 0..l - 1 : m[p + h] # 0

(* A string is such a text, of the length strlen returns. *)
LEMMA TextIs ==
    ASSUME NEW m \in Memory, NEW p \in Addr, EndOf(m, p) < Size
    PROVE  TextAt(m, p, Strlen(m, p)) /\ EndOf(m, p) = p + Strlen(m, p)
<1> DEFINE T == {a \in p..Size - 1 : m[a] = 0} \cup {Size}
<1>1. Size \in Nat \ {0} /\ p \in Nat /\ Addr = 0..Size - 1
  BY MemoryIs
<1>2. T \subseteq Nat /\ T # {}
  BY <1>1
<1>3. PICK e : e = EndOf(m, p)
  OBVIOUS
<1>4. e \in T /\ \A x \in T : e <= x
  <2>1. EndOf(m, p) = Min(T)
    BY DEF EndOf
  <2> HIDE DEF T
  <2> QED
    BY <1>2, <1>3, <2>1, MinIs
<1>5. e \in p..Size - 1 /\ m[e] = 0
  BY <1>1, <1>3, <1>4
<1>6. PICK l \in Nat : l = e - p /\ e = p + l
  BY <1>1, <1>5
<1>7. ASSUME NEW h \in 0..l - 1 PROVE m[p + h] # 0
  <2>1. PICK a \in p..Size - 1 : a = p + h /\ a < e
    BY <1>1, <1>5, <1>6
  <2>2. a \in T => e <= a
    BY <1>4
  <2>3. a \notin T
    BY <1>1, <1>5, <2>1, <2>2
  <2> QED
    BY <2>1, <2>3
<1>8. Strlen(m, p) = l
  BY <1>3, <1>6 DEF Strlen
<1> HIDE DEF T
<1> QED
  BY <1>1, <1>3, <1>5, <1>6, <1>7, <1>8 DEF TextAt

(* And such a text is a string of that length. *)
LEMMA TextEnds ==
    ASSUME NEW m \in Memory, NEW p \in Addr, NEW l, TextAt(m, p, l)
    PROVE  EndOf(m, p) = p + l /\ Strlen(m, p) = l /\ IsString(m, p)
<1> DEFINE T == {a \in p..Size - 1 : m[a] = 0} \cup {Size}
<1>1. Size \in Nat \ {0} /\ p \in Nat /\ Addr = 0..Size - 1 /\ l \in Nat /\ p + l < Size
  BY MemoryIs DEF TextAt
<1>2. T \subseteq Nat /\ T # {}
  BY <1>1
<1>3. PICK e : e = EndOf(m, p)
  OBVIOUS
<1>4. e \in T /\ \A x \in T : e <= x
  <2>1. EndOf(m, p) = Min(T)
    BY DEF EndOf
  <2> HIDE DEF T
  <2> QED
    BY <1>2, <1>3, <2>1, MinIs
<1>5. PICK z \in p..Size - 1 : z = p + l
  BY <1>1
<1>6. m[z] = 0
  BY <1>5 DEF TextAt
<1>7. e <= z /\ e \in p..Size - 1 /\ m[e] = 0
  BY <1>1, <1>4, <1>5, <1>6
<1>8. e = z
  <2>1. SUFFICES ASSUME e < z PROVE FALSE
    BY <1>1, <1>7
  <2>2. PICK h \in 0..l - 1 : h = e - p /\ p + h = e
    BY <1>1, <1>5, <1>7, <2>1
  <2>3. m[p + h] # 0
    BY <2>2 DEF TextAt
  <2> QED
    BY <1>7, <2>2, <2>3
<1> HIDE DEF T
<1> QED
  BY <1>1, <1>3, <1>5, <1>8 DEF Strlen, IsString

(* A string is its characters. *)
LEMMA StrIs ==
    ASSUME NEW m \in Memory, NEW p \in Addr, NEW l, TextAt(m, p, l)
    PROVE  /\ Str(m, p) = [h \in 1..l |-> m[p + h - 1]]
           /\ Str(m, p) \in Seq(Value) /\ Len(Str(m, p)) = l
<1>1. Size \in Nat \ {0} /\ p \in Nat /\ Addr = 0..Size - 1 /\ l \in Nat /\ p + l < Size
  BY MemoryIs DEF TextAt
<1>2. Str(m, p) = [h \in 1..l |-> m[p + h - 1]]
  BY TextEnds, Zenon DEF Str
<1>3. \A h \in 1..l : m[p + h - 1] \in Value
  <2> SUFFICES ASSUME NEW h \in 1..l PROVE m[p + h - 1] \in Value
    OBVIOUS
  <2>1. p + h - 1 \in Addr
    BY <1>1
  <2> QED
    BY <2>1, Zenon DEF Memory
<1>4. Str(m, p) \in [1..l -> Value]
  BY <1>2, <1>3, Zenon
<1> QED
  BY <1>1, <1>2, <1>4, TextCounted, Zenon

(* The first l cells at p and at q are alike. *)
SameUpTo(m, p, q, l) == \A h \in 0..l - 1 : m[p + h] = m[q + h]

(* The cells at p as a sequence. *)
Cells(m, p, l) == [h \in 1..l |-> m[p + h - 1]]

(* Sequences of cells are equal when they are as long and alike. *)
LEMMA SameCells ==
    ASSUME NEW m, NEW p \in Nat, NEW q \in Nat, NEW l \in Nat, NEW k \in Nat
    PROVE  Cells(m, p, l) = Cells(m, q, k) <=> l = k /\ SameUpTo(m, p, q, l)
<1>1. ASSUME Cells(m, p, l) = Cells(m, q, k)
      PROVE  l = k
  <2>1. DOMAIN Cells(m, p, l) = 1..l /\ DOMAIN Cells(m, q, k) = 1..k
    BY DEF Cells
  <2>2. 1..l = 1..k
    BY <1>1, <2>1, Zenon
  <2>3. l < k => k \in 1..k /\ k \notin 1..l
    OBVIOUS
  <2>4. k < l => l \in 1..l /\ l \notin 1..k
    OBVIOUS
  <2> QED
    BY <2>2, <2>3, <2>4
<1>2. ASSUME Cells(m, p, l) = Cells(m, q, k), NEW h \in 0..l - 1
      PROVE  m[p + h] = m[q + h]
  <2>1. PICK n \in 1..l : n = h + 1 /\ p + n - 1 = p + h /\ q + n - 1 = q + h
    BY <1>2
  <2>2. n \in 1..k
    BY <1>1, <1>2
  <2>3. Cells(m, p, l)[n] = m[p + n - 1] /\ Cells(m, q, k)[n] = m[q + n - 1]
    BY <2>2, Zenon DEF Cells
  <2> QED
    BY <1>2, <2>1, <2>3, Zenon
<1>3. ASSUME l = k, SameUpTo(m, p, q, l)
      PROVE  Cells(m, p, l) = Cells(m, q, k)
  <2>1. ASSUME NEW n \in 1..l PROVE m[p + n - 1] = m[q + n - 1]
    <3>1. PICK h \in 0..l - 1 : h = n - 1 /\ p + n - 1 = p + h /\ q + n - 1 = q + h
      OBVIOUS
    <3> QED
      BY <1>3, <3>1, Zenon DEF SameUpTo
  <2> QED
    BY <1>3, <2>1, Zenon DEF Cells
<1> QED
  BY <1>1, <1>2, <1>3 DEF SameUpTo

(* The first n characters of a string. *)
First(m, p, n) == SubSeq(Str(m, p), 1, Min({n, Strlen(m, p)}))

(* They are the first cells. *)
LEMMA FirstIs ==
    ASSUME NEW m \in Memory, NEW p \in Addr, NEW l, TextAt(m, p, l), NEW n \in Nat
    PROVE  First(m, p, n) = Cells(m, p, Min({n, l}))
<1>1. l \in Nat /\ p \in Nat
  BY MemoryIs DEF TextAt
<1>2. PICK s : s = Str(m, p)
  OBVIOUS
<1>3. s \in Seq(Value) /\ Len(s) = l /\ s = [h \in 1..l |-> m[p + h - 1]]
  BY <1>2, StrIs
<1>4. PICK c \in Nat : c = Min({n, l}) /\ c <= l
  BY <1>1, MinOfTwo
<1>5. \A h \in 1..l : s[h] = m[p + h - 1]
  BY <1>3, Zenon
<1>6. PICK t : t = SubSeq(s, 1, c)
  OBVIOUS
<1>7. t \in Seq(Value) /\ Len(t) = c /\ \A h \in 1..c : t[h] = s[h]
  <2>1. \A h \in 1..c : s[h] \in Value
    BY <1>1, <1>3, <1>4, ElementOfSeq
  <2>2. PICK one \in Int : one = 1
    OBVIOUS
  <2>3. /\ SubSeq(s, one, c) \in Seq(Value)
        /\ Len(SubSeq(s, one, c)) = IF one <= c THEN c - one + 1 ELSE 0
        /\ \A h \in 1..c - one + 1 : SubSeq(s, one, c)[h] = s[one + h - 1]
    BY <2>1, <2>2, SubSeqProperties
  <2>4. c - one + 1 = c /\ (~(one <= c) => c = 0) /\ \A h \in 1..c : one + h - 1 = h
    BY <2>2
  <2> QED
    BY <1>6, <2>2, <2>3, <2>4, Zenon
<1>8. t = [h \in 1..c |-> m[p + h - 1]]
  <2>1. t = [h \in 1..c |-> t[h]]
    BY <1>7, LenProperties, Zenon
  <2>2. \A h \in 1..c : h \in 1..l
    BY <1>1, <1>4
  <2> QED
    BY <1>5, <1>7, <2>1, <2>2, Zenon
<1>9. Strlen(m, p) = l
  BY TextEnds
<1> QED
  BY <1>2, <1>4, <1>6, <1>8, <1>9, Zenon DEF First, Cells

(* Two strings, as long as l and k. *)
TwoTexts(m, p, q, l, k) == TextAt(m, p, l) /\ TextAt(m, q, k)

(* Where a comparison of the strings stops: at the first cell that differs or ends
   one of them. *)
StopsIn(m, p, q, h) == m[p + h] # m[q + h] \/ m[p + h] = 0

StoppedAt(m, p, q, h) ==
    h \in Nat /\ SameUpTo(m, p, q, h) /\ \A j \in 0..h - 1 : m[p + j] # 0

(* What a comparison returns that stops there. *)
LEMMA StopIs ==
    ASSUME NEW m \in Memory, NEW p \in Addr, NEW q \in Addr, NEW l, NEW k, TwoTexts(m, p, q, l, k),
           NEW h, StoppedAt(m, p, q, h), StopsIn(m, p, q, h)
    PROVE  /\ h <= l /\ h <= k /\ m[p + h] \in Nat /\ m[q + h] \in Nat
           /\ m[p + h] = m[q + h] <=> l = k /\ SameUpTo(m, p, q, l)
<1>1. /\ l \in Nat /\ k \in Nat /\ h \in Nat /\ p \in Nat /\ q \in Nat /\ Size \in Nat
      /\ p + l < Size /\ q + k < Size /\ m[p + l] = 0 /\ m[q + k] = 0
  BY MemoryIs DEF TwoTexts, TextAt, StoppedAt
<1>2. h <= l
  <2>1. l < h => l \in 0..h - 1
    BY <1>1
  <2>2. l \notin 0..h - 1
    BY <1>1 DEF StoppedAt
  <2> QED
    BY <1>1, <2>1, <2>2
<1>3. h <= k
  <2>1. k < h => k \in 0..h - 1
    BY <1>1
  <2>2. k \notin 0..h - 1
    BY <1>1 DEF StoppedAt, SameUpTo
  <2> QED
    BY <1>1, <2>1, <2>2
<1>4. m[p + h] \in Nat /\ m[q + h] \in Nat
  <2>1. p + h \in Addr /\ q + h \in Addr
    BY <1>1, <1>2, <1>3, MemoryIs
  <2> QED
    BY <2>1, MemoryIs DEF Memory
<1>5. ASSUME m[p + h] = m[q + h]
      PROVE  l = k /\ SameUpTo(m, p, q, l)
  <2>1. m[p + h] = 0 /\ m[q + h] = 0
    BY <1>5 DEF StopsIn
  <2>2. h < l => m[p + h] # 0
    BY <1>1 DEF TwoTexts, TextAt
  <2>3. h < k => m[q + h] # 0
    BY <1>1 DEF TwoTexts, TextAt
  <2>4. h = l /\ h = k
    BY <1>1, <1>2, <1>3, <2>1, <2>2, <2>3
  <2> QED
    BY <2>4, Zenon DEF StoppedAt
<1>6. ASSUME l = k, SameUpTo(m, p, q, l)
      PROVE  m[p + h] = m[q + h]
  <2>1. CASE h = l
    BY <1>1, <1>6, <2>1
  <2>2. CASE h # l
    <3>1. h \in 0..l - 1
      BY <1>1, <1>2, <2>2
    <3> QED
      BY <1>6, <3>1 DEF SameUpTo
  <2> QED
    BY <2>1, <2>2
<1> QED
  BY <1>2, <1>3, <1>4, <1>5, <1>6

(* strcmp stops like that, and in the same place with its arguments exchanged. *)
LEMMA StrcmpStops ==
    ASSUME NEW m \in Memory, NEW p \in Addr, NEW q \in Addr, NEW l, NEW k, TwoTexts(m, p, q, l, k)
    PROVE  \E h \in Nat : /\ StoppedAt(m, p, q, h) /\ StopsIn(m, p, q, h)
                          /\ Strcmp(m, p, q) = m[p + h] - m[q + h]
                          /\ Strcmp(m, q, p) = m[q + h] - m[p + h]
<1> DEFINE c == Min({l, k})
           T == {h \in 0..c : m[p + h] # m[q + h] \/ m[p + h] = 0}
<1>1. /\ l \in Nat /\ k \in Nat /\ p \in Nat /\ q \in Nat /\ Size \in Nat
      /\ p + l < Size /\ q + k < Size /\ m[p + l] = 0 /\ m[q + k] = 0
  BY MemoryIs DEF TwoTexts, TextAt
<1>2. c \in Nat /\ c \in {l, k} /\ c = Min({k, l})
  <2>1. {l, k} = {k, l}
    OBVIOUS
  <2> QED
    BY <1>1, <2>1, MinOfTwo
<1>3. T = {h \in 0..c : m[q + h] # m[p + h] \/ m[q + h] = 0}
  OBVIOUS
<1>4. c \in T
  <2>1. c \in 0..c
    <3> HIDE DEF c
    <3> QED
      BY <1>2
  <2>2. CASE c = l
    BY <1>1, <2>1, <2>2, Zenon
  <2>3. CASE c = k
    BY <1>1, <2>1, <2>3, Zenon
  <2> QED
    BY <1>2, <2>2, <2>3
<1>5. Strlen(m, p) = l /\ Strlen(m, q) = k
  BY TextEnds DEF TwoTexts
<1>6. /\ Strcmp(m, p, q) = m[p + Min(T)] - m[q + Min(T)]
      /\ Strcmp(m, q, p) = m[q + Min(T)] - m[p + Min(T)]
  <2>1. Strcmp(m, p, q) = m[p + Min(T)] - m[q + Min(T)]
    BY <1>5, Zenon DEF Strcmp
  <2>2. Strcmp(m, q, p) = m[q + Min({h \in 0..c : m[q + h] # m[p + h] \/ m[q + h] = 0})]
                          - m[p + Min({h \in 0..c : m[q + h] # m[p + h] \/ m[q + h] = 0})]
    BY <1>2, <1>5, Zenon DEF Strcmp
  <2> QED
    BY <1>3, <2>1, <2>2, Zenon
<1>7. PICK h : h = Min(T)
  OBVIOUS
<1>8. h \in T /\ \A j \in T : h <= j
  <2>1. T \subseteq Nat
    BY <1>2
  <2> HIDE DEF T
  <2> QED
    BY <1>4, <1>7, <2>1, MinIs
<1>9. h \in 0..c /\ (m[p + h] # m[q + h] \/ m[p + h] = 0)
  BY <1>8
<1>10. ASSUME NEW j \in 0..h - 1 PROVE m[p + j] = m[q + j] /\ m[p + j] # 0
  <2>1. j \in 0..c /\ ~(h <= j)
    BY <1>2, <1>9
  <2>2. j \notin T
    BY <1>8, <2>1, Zenon
  <2> QED
    BY <2>1, <2>2
<1> HIDE DEF T, c
<1>11. h \in Nat
  BY <1>2, <1>9
<1>12. StoppedAt(m, p, q, h) /\ StopsIn(m, p, q, h)
  BY <1>9, <1>10, <1>11, Zenon DEF StoppedAt, StopsIn, SameUpTo
<1> QED
  BY <1>6, <1>7, <1>11, <1>12, Zenon

(* strncmp finds nothing exactly when the first n characters agree. *)
LEMMA StrncmpIs ==
    ASSUME NEW m \in Memory, NEW p \in Addr, NEW q \in Addr, NEW l, NEW k, TwoTexts(m, p, q, l, k),
           NEW n \in Nat, p + n < Size, q + n < Size
    PROVE  Strncmp(m, p, q, n) = 0 <=> First(m, p, n) = First(m, q, n)
<1> DEFINE T == {h \in 0..n - 1 : m[p + h] # m[q + h] \/ m[p + h] = 0 \/ h = n - 1}
<1>1. /\ l \in Nat /\ k \in Nat /\ p \in Nat /\ q \in Nat /\ Size \in Nat
      /\ p + l < Size /\ q + k < Size /\ m[p + l] = 0 /\ m[q + k] = 0
  BY MemoryIs DEF TwoTexts, TextAt
<1>2. PICK b \in Nat, c \in Nat : /\ b = Min({n, l}) /\ b \in {n, l} /\ b <= n /\ b <= l
                                   /\ c = Min({n, k}) /\ c \in {n, k} /\ c <= n /\ c <= k
  BY <1>1, MinOfTwo
<1>3. First(m, p, n) = First(m, q, n) <=> b = c /\ SameUpTo(m, p, q, b)
  <2>1. First(m, p, n) = Cells(m, p, b) /\ First(m, q, n) = Cells(m, q, c)
    BY <1>2, FirstIs DEF TwoTexts
  <2> QED
    BY <1>1, <2>1, SameCells
<1>4. CASE n = 0
  <2>1. Strncmp(m, p, q, n) = 0
    BY <1>4, Zenon DEF Strncmp
  <2>2. b = 0 /\ c = 0
    BY <1>2, <1>4
  <2> QED
    BY <1>3, <2>1, <2>2 DEF SameUpTo
<1>5. CASE n # 0
  <2>1. T \subseteq Nat /\ n - 1 \in T
    BY <1>5
  <2>2. PICK h : h = Min(T)
    OBVIOUS
  <2>3. h \in T /\ \A j \in T : h <= j
    <3> HIDE DEF T
    <3> QED
      BY <2>1, <2>2, MinIs
  <2>4. h \in 0..n - 1 /\ (m[p + h] # m[q + h] \/ m[p + h] = 0 \/ h = n - 1)
    BY <2>3
  <2>5. ASSUME NEW j \in 0..h - 1 PROVE m[p + j] = m[q + j] /\ m[p + j] # 0
    <3>1. j \in 0..n - 1 /\ ~(h <= j)
      BY <2>4
    <3>2. j \notin T
      BY <2>3, <3>1, Zenon
    <3> QED
      BY <3>1, <3>2
  <2>6. StoppedAt(m, p, q, h)
    BY <2>4, <2>5 DEF StoppedAt, SameUpTo
  <2>7. Strncmp(m, p, q, n) = m[p + h] - m[q + h]
    BY <1>5, <2>2, Zenon DEF Strncmp
  <2>8. m[p + h] \in Nat /\ m[q + h] \in Nat
    <3>1. p + h \in Addr /\ q + h \in Addr
      BY <1>1, <2>4, MemoryIs
    <3> QED
      BY <3>1, MemoryIs DEF Memory
  <2>9. Strncmp(m, p, q, n) = 0 <=> m[p + h] = m[q + h]
    BY <2>7, <2>8
  <2> HIDE DEF T
  <2>10. ASSUME m[p + h] = m[q + h], m[p + h] = 0
         PROVE  b = c /\ SameUpTo(m, p, q, b)
    <3>1. l = k /\ SameUpTo(m, p, q, l)
      <4>1. StopsIn(m, p, q, h)
        BY <2>10 DEF StopsIn
      <4> QED
        BY <2>6, <2>10, <4>1, StopIs
    <3>2. b = c
      BY <1>2, <3>1, Zenon
    <3>3. \A j \in 0..b - 1 : j \in 0..l - 1
      BY <1>1, <1>2
    <3> QED
      BY <3>1, <3>2, <3>3, Zenon DEF SameUpTo
  <2>11. ASSUME m[p + h] = m[q + h], m[p + h] # 0
         PROVE  b = c /\ SameUpTo(m, p, q, b)
    <3>1. h = n - 1
      BY <2>4, <2>11
    <3>2. ASSUME NEW j \in 0..n - 1 PROVE m[p + j] = m[q + j] /\ m[p + j] # 0
      <4>1. j = h \/ j \in 0..h - 1
        BY <2>4, <3>1
      <4> QED
        BY <2>5, <2>11, <4>1
    <3>3. l \notin 0..n - 1 /\ k \notin 0..n - 1
      BY <1>1, <3>2
    <3>4. b = n /\ c = n
      BY <1>1, <1>2, <3>3
    <3> QED
      BY <3>2, <3>4, Zenon DEF SameUpTo
  <2>12. ASSUME b = c, SameUpTo(m, p, q, b)
         PROVE  m[p + h] = m[q + h]
    <3>1. CASE h < b
      <4>1. h \in 0..b - 1
        BY <1>2, <2>4, <3>1
      <4> QED
        BY <2>12, <4>1, Zenon DEF SameUpTo
    <3>2. CASE ~(h < b)
      <4>1. b # n
        BY <1>2, <2>4, <3>2
      <4>2. l = k /\ l = b /\ l \in 0..n - 1
        BY <1>1, <1>2, <2>4, <2>12, <3>2, <4>1
      <4>3. l \in T
        BY <1>1, <4>2, Zenon DEF T
      <4>4. h = l
        BY <1>1, <2>3, <2>4, <3>2, <4>2, <4>3
      <4> QED
        BY <1>1, <4>2, <4>4, Zenon
    <3> QED
      BY <3>1, <3>2
  <2> QED
    BY <1>3, <2>9, <2>10, <2>11, <2>12
<1> QED
  BY <1>4, <1>5

(* memcmp and its counterpart with the arguments exchanged; what it finds equal
   strncmp does too. *)
LEMMA MemcmpIs ==
    ASSUME NEW m \in Memory, NEW p \in Addr, NEW q \in Addr, NEW n \in Nat, p + n < Size, q + n < Size
    PROVE  /\ Memcmp(m, p, q, n) = -Memcmp(m, q, p, n)
           /\ Memcmp(m, p, q, n) = 0 => Strncmp(m, p, q, n) = 0
<1> DEFINE T == {h \in 0..n - 1 : m[p + h] # m[q + h]}
<1>1. T = {h \in 0..n - 1 : m[q + h] # m[p + h]}
  OBVIOUS
<1>2. p \in Nat /\ q \in Nat /\ Size \in Nat
  BY MemoryIs
<1>3. ASSUME NEW h \in 0..n - 1 PROVE m[p + h] \in Nat /\ m[q + h] \in Nat
  <2>1. p + h \in Addr /\ q + h \in Addr
    BY <1>2, MemoryIs
  <2> QED
    BY <2>1, MemoryIs DEF Memory
<1>4. CASE T = {}
  <2>1. Memcmp(m, p, q, n) = 0 /\ Memcmp(m, q, p, n) = 0
    BY <1>1, <1>4, Zenon DEF Memcmp
  <2>2. \A h \in 0..n - 1 : m[p + h] = m[q + h]
    BY <1>4
  <2>3. Strncmp(m, p, q, n) = 0
    <3> DEFINE U == {h \in 0..n - 1 : m[p + h] # m[q + h] \/ m[p + h] = 0 \/ h = n - 1}
    <3>1. CASE n = 0
      BY <3>1, Zenon DEF Strncmp
    <3>2. CASE n # 0
      <4>1. U \subseteq Nat /\ n - 1 \in U
        BY <3>2
      <4>2. PICK h : h = Min(U)
        OBVIOUS
      <4>3. h \in U
        <5> HIDE DEF U
        <5> QED
          BY <4>1, <4>2, MinIs
      <4>4. h \in 0..n - 1
        BY <4>3
      <4>5. Strncmp(m, p, q, n) = m[p + h] - m[q + h]
        BY <3>2, <4>2, Zenon DEF Strncmp
      <4> QED
        BY <1>3, <2>2, <4>4, <4>5
    <3> QED
      BY <3>1, <3>2
  <2> HIDE DEF T
  <2>4. 0 = -0
    <3>1. \A z \in Int : -z = 0 - z
      OBVIOUS
    <3>2. PICK z : z = 0
      OBVIOUS
    <3>3. 0 - z = z /\ z \in Int
      BY <3>2
    <3>4. -z = z
      BY <3>1, <3>3, Zenon
    <3> QED
      BY <3>2, <3>4, Zenon
  <2> QED
    BY <2>1, <2>3, <2>4, Zenon
<1>5. CASE T # {}
  <2>1. PICK h : h = Min(T)
    OBVIOUS
  <2>2. h \in T
    <3>1. T \subseteq Nat
      OBVIOUS
    <3> HIDE DEF T
    <3> QED
      BY <1>5, <2>1, <3>1, MinIs
  <2>3. h \in 0..n - 1 /\ m[p + h] # m[q + h]
    BY <2>2
  <2>4. Memcmp(m, p, q, n) = IF m[p + h] < m[q + h] THEN -1 ELSE 1
    BY <1>5, <2>1, Zenon DEF Memcmp
  <2>5. Memcmp(m, q, p, n) = IF m[q + h] < m[p + h] THEN -1 ELSE 1
    <3> DEFINE V == {j \in 0..n - 1 : m[q + j] # m[p + j]}
    <3>1. V # {} /\ Min(V) = h
      BY <1>1, <1>5, <2>1, Zenon
    <3> QED
      BY <3>1, Zenon DEF Memcmp
  <2> HIDE DEF T
  <2>6. m[p + h] \in Nat /\ m[q + h] \in Nat
    BY <1>3, <2>3
  <2> QED
    BY <2>3, <2>4, <2>5, <2>6
<1> QED
  BY <1>4, <1>5

(* The types of the string library's memory, position and calls. *)
StringsTypeOK ==
    /\ mem \in Memory /\ before \in Memory
    /\ olds \in Addr
    /\ call \in [op : {"none", "move", "copy", "ncopy", "ndup", "cat", "split", "done"},
                d : Addr, s : Addr, n : 0..Size]

(* On every memory the comparisons agree with the texts. *)
LEMMA Comparisons ==
    ASSUME StringsTypeOK
    PROVE  CompareAgrees
<1> SUFFICES ASSUME NEW p \in Addr, NEW q \in Addr, IsString(mem, p), IsString(mem, q)
             PROVE  /\ (Strcmp(mem, p, q) = 0) = (Str(mem, p) = Str(mem, q))
                    /\ Strcmp(mem, p, q) = -Strcmp(mem, q, p)
                    /\ \A n \in 0..Size - Max({p, q}) - 1 :
                         /\ (Strncmp(mem, p, q, n) = 0) = (First(mem, p, n) = First(mem, q, n))
                         /\ Memcmp(mem, p, q, n) = -Memcmp(mem, q, p, n)
                         /\ Memcmp(mem, p, q, n) = 0 => Strncmp(mem, p, q, n) = 0
  BY Zenon DEF CompareAgrees, First
<1>1. PICK m \in Memory : m = mem
  BY Zenon DEF StringsTypeOK
<1>2. PICK l, k : l = Strlen(m, p) /\ k = Strlen(m, q)
  OBVIOUS
<1>3. TwoTexts(m, p, q, l, k)
  <2>1. EndOf(m, p) < Size /\ EndOf(m, q) < Size
    BY <1>1, Zenon DEF IsString
  <2> QED
    BY <1>2, <2>1, TextIs DEF TwoTexts
<1>4. p \in Nat /\ q \in Nat /\ Size \in Nat /\ l \in Nat /\ k \in Nat
  BY <1>3, MemoryIs DEF TwoTexts, TextAt
<1>5. PICK h \in Nat : /\ StoppedAt(m, p, q, h) /\ StopsIn(m, p, q, h)
                       /\ Strcmp(m, p, q) = m[p + h] - m[q + h]
                       /\ Strcmp(m, q, p) = m[q + h] - m[p + h]
  BY <1>3, StrcmpStops
<1>6. /\ m[p + h] \in Nat /\ m[q + h] \in Nat
      /\ m[p + h] = m[q + h] <=> l = k /\ SameUpTo(m, p, q, l)
  BY <1>3, <1>5, StopIs
<1>7. Str(m, p) = Str(m, q) <=> l = k /\ SameUpTo(m, p, q, l)
  <2>1. Str(m, p) = Cells(m, p, l) /\ Str(m, q) = Cells(m, q, k)
    BY <1>3, StrIs DEF TwoTexts, Cells
  <2> QED
    BY <1>4, <2>1, SameCells
<1>8. (Strcmp(m, p, q) = 0) = (Str(m, p) = Str(m, q))
  <2>1. Strcmp(m, p, q) = 0 <=> m[p + h] = m[q + h]
    BY <1>5, <1>6
  <2> QED
    BY <1>6, <1>7, <2>1
<1>9. Strcmp(m, p, q) = -Strcmp(m, q, p)
  BY <1>5, <1>6
<1>10. ASSUME NEW n \in 0..Size - Max({p, q}) - 1
       PROVE  /\ (Strncmp(m, p, q, n) = 0) = (First(m, p, n) = First(m, q, n))
              /\ Memcmp(m, p, q, n) = -Memcmp(m, q, p, n)
              /\ Memcmp(m, p, q, n) = 0 => Strncmp(m, p, q, n) = 0
  <2>1. PICK g : g = Max({p, q})
    OBVIOUS
  <2>2. g \in Nat /\ p <= g /\ q <= g
    <3>1. \E x \in {p, q} : \A y \in {p, q} : x >= y
      BY <1>4
    <3>2. g \in {p, q} /\ \A y \in {p, q} : g >= y
      BY <2>1, <3>1, Zenon DEF Max
    <3> QED
      BY <1>4, <3>2
  <2>3. n \in Nat /\ p + n < Size /\ q + n < Size
    BY <1>4, <1>10, <2>1, <2>2
  <2>4. Strncmp(m, p, q, n) = 0 <=> First(m, p, n) = First(m, q, n)
    BY <1>3, <2>3, StrncmpIs
  <2>5. /\ Memcmp(m, p, q, n) = -Memcmp(m, q, p, n)
        /\ Memcmp(m, p, q, n) = 0 => Strncmp(m, p, q, n) = 0
    BY <2>3, MemcmpIs
  <2> QED
    BY <2>4, <2>5
<1> QED
  BY <1>1, <1>8, <1>9, <1>10, Zenon

(* Memory with the cells in K brought from the block at s to the one at d. *)
Brought(m, d, s, K) == [a \in Addr |-> IF a \in K THEN m[s + a - d] ELSE m[a]]

(* Copying cell u to cell t brings one cell more. *)
BringsOne(m, d, s, K, t, u) ==
    [Brought(m, d, s, K) EXCEPT ![t] = Brought(m, d, s, K)[u]] = Brought(m, d, s, K \cup {t})

(* It does when u is where t's character was, and nothing has been copied there. *)
LEMMA OneBrought ==
    ASSUME NEW m, NEW d \in Nat, NEW s \in Nat, NEW K, NEW t \in Addr, NEW u \in Addr, u = s + t - d, u \notin K
    PROVE  BringsOne(m, d, s, K, t, u)
<1>1. PICK b : b = Brought(m, d, s, K)
  OBVIOUS
<1>2. DOMAIN b = Addr /\ \A a \in Addr : b[a] = IF a \in K THEN m[s + a - d] ELSE m[a]
  BY <1>1, Zenon DEF Brought
<1>3. b[u] = m[u]
  BY <1>2
<1>4. PICK e : e = [b EXCEPT ![t] = b[u]]
  OBVIOUS
<1>5. e = [a \in Addr |-> IF a = t THEN m[u] ELSE b[a]]
  BY <1>2, <1>3, <1>4
<1>6. \A a \in Addr : e[a] = IF a \in K \cup {t} THEN m[s + a - d] ELSE m[a]
  <2> SUFFICES ASSUME NEW a \in Addr
               PROVE  e[a] = IF a \in K \cup {t} THEN m[s + a - d] ELSE m[a]
    OBVIOUS
  <2>1. CASE a = t
    BY <1>5, <2>1, Zenon
  <2>2. CASE a # t
    BY <1>2, <1>5, <2>2, Zenon
  <2> QED
    BY <2>1, <2>2
<1>7. e = [a \in Addr |-> IF a \in K \cup {t} THEN m[s + a - d] ELSE m[a]]
  <2>1. e = [a \in Addr |-> e[a]]
    BY <1>5
  <2> QED
    BY <1>6, <2>1, Zenon
<1> QED
  BY <1>1, <1>4, <1>7, Zenon DEF Brought, BringsOne

(* Rounds of copying: round i copies cell from[i] to cell to[i]. *)
Rounds(f, m, to, from, n) ==
    \A h \in 0..n : f[h] = IF h = 0 THEN m ELSE [f[h - 1] EXCEPT ![to[h]] = f[h - 1][from[h]]]

(* There is one outcome. *)
LEMMA OneOutcome ==
    ASSUME NEW f, NEW g, NEW m, NEW to, NEW from, NEW n \in Nat,
           Rounds(f, m, to, from, n), Rounds(g, m, to, from, n)
    PROVE  f[n] = g[n]
<1> DEFINE T == {h \in 0..n : f[h] # g[h]}
<1>1. SUFFICES ASSUME T # {} PROVE FALSE
  BY DEF T
<1>2. T \subseteq Nat
  OBVIOUS
<1>3. PICK h \in T : \A j \in T : h <= j
  <2> HIDE DEF T
  <2> QED
    BY <1>1, <1>2, LeastExists
<1>4. h \in 0..n /\ f[h] # g[h]
  BY <1>3
<1>5. h # 0
  BY <1>4 DEF Rounds
<1>6. h - 1 \in 0..n /\ ~(h <= h - 1)
  BY <1>4, <1>5
<1>7. f[h - 1] = g[h - 1]
  <2>1. h - 1 \notin T
    BY <1>3, <1>6, Zenon
  <2> QED
    BY <1>6, <2>1
<1>8. f[h] = [f[h - 1] EXCEPT ![to[h]] = f[h - 1][from[h]]]
  BY <1>4, <1>5, Zenon DEF Rounds
<1>9. g[h] = [g[h - 1] EXCEPT ![to[h]] = g[h - 1][from[h]]]
  BY <1>4, <1>5, Zenon DEF Rounds
<1> HIDE DEF T
<1> QED
  BY <1>4, <1>7, <1>8, <1>9, Zenon

(* Two blocks of n cells in memory. *)
Blocks(d, s, n) == d \in Nat /\ s \in Nat /\ n \in Nat /\ d + n <= Size /\ s + n <= Size

(* Copied upwards, a block arrives whole unless its end overlaps the destination's
   beginning. *)
LEMMA CopyUpIs ==
    ASSUME NEW m \in Memory, NEW d, NEW s, NEW n, Blocks(d, s, n), d <= s \/ s + n <= d
    PROVE  CopyUp(m, d, s, n) = Brought(m, d, s, Block(d, n))
<1> DEFINE F(f) == [h \in 0..n |-> IF h = 0 THEN m
                                   ELSE [f[h - 1] EXCEPT ![d + h - 1] = f[h - 1][s + h - 1]]]
           g == [h \in 0..n |-> Brought(m, d, s, Block(d, h))]
           to == [h \in 1..n |-> d + h - 1]
           from == [h \in 1..n |-> s + h - 1]
<1>1. d \in Nat /\ s \in Nat /\ n \in Nat /\ d + n <= Size /\ s + n <= Size /\ Addr = 0..Size - 1 /\ Size \in Nat
  BY MemoryIs DEF Blocks
<1>2. Brought(m, d, s, Block(d, 0)) = m
  <2>1. Block(d, 0) = {}
    BY <1>1 DEF Block
  <2>2. m = [a \in Addr |-> m[a]]
    BY DEF Memory
  <2> QED
    BY <2>1, <2>2, Zenon DEF Brought
<1>3. ASSUME NEW h \in 1..n
      PROVE  Brought(m, d, s, Block(d, h))
               = [Brought(m, d, s, Block(d, h - 1)) EXCEPT ![d + h - 1] = Brought(m, d, s, Block(d, h - 1))[s + h - 1]]
  <2>1. PICK t \in Addr, u \in Addr : t = d + h - 1 /\ u = s + h - 1 /\ u = s + t - d
    BY <1>1
  <2>2. PICK K : K = Block(d, h - 1)
    OBVIOUS
  <2>3. u \notin K /\ K \cup {t} = Block(d, h)
    BY <1>1, <2>1, <2>2 DEF Block
  <2>4. BringsOne(m, d, s, K, t, u)
    <3>1. d \in Nat /\ s \in Nat /\ u = s + t - d /\ u \notin K
      BY <1>1, <2>1, <2>3
    <3> QED
      BY <3>1, OneBrought, Zenon
  <2> QED
    BY <2>1, <2>2, <2>3, <2>4, Zenon DEF BringsOne
<1>4. g = F(g)
  <2>1. ASSUME NEW h \in 0..n
        PROVE  g[h] = IF h = 0 THEN m ELSE [g[h - 1] EXCEPT ![d + h - 1] = g[h - 1][s + h - 1]]
    <3>1. CASE h = 0
      BY <1>2, <3>1, Zenon
    <3>2. CASE h # 0
      <4>1. h \in 1..n /\ h - 1 \in 0..n
        BY <1>1, <3>2
      <4>2. g[h] = Brought(m, d, s, Block(d, h)) /\ g[h - 1] = Brought(m, d, s, Block(d, h - 1))
        BY <4>1, Zenon
      <4> QED
        BY <1>3, <3>2, <4>1, <4>2, Zenon
    <3> QED
      BY <3>1, <3>2
  <2>2. g = [h \in 0..n |-> g[h]]
    OBVIOUS
  <2> HIDE DEF g
  <2> QED
    BY <2>1, <2>2, Zenon
<1>5. PICK f : f = (CHOOSE u : u = F(u))
  OBVIOUS
<1>6. f = F(f)
  <2> HIDE DEF F, g
  <2> QED
    BY <1>4, <1>5, Zenon
<1>7. CopyUp(m, d, s, n) = f[n]
  BY <1>5, Zenon DEF CopyUp, F
<1>8. \A h \in 1..n : to[h] = d + h - 1 /\ from[h] = s + h - 1
  OBVIOUS
<1>9. ASSUME NEW u, u = F(u) PROVE Rounds(u, m, to, from, n)
  <2>1. \A h \in 0..n : u[h] = IF h = 0 THEN m ELSE [u[h - 1] EXCEPT ![d + h - 1] = u[h - 1][s + h - 1]]
    BY <1>9, Zenon DEF F
  <2>2. \A h \in 0..n : h = 0 \/ h \in 1..n
    BY <1>1
  <2> HIDE DEF to, from, F
  <2> QED
    BY <1>8, <2>1, <2>2, Zenon DEF Rounds
<1>10. Rounds(f, m, to, from, n) /\ Rounds(g, m, to, from, n)
  <2> HIDE DEF F, g, to, from
  <2> QED
    BY <1>4, <1>6, <1>9, Zenon
<1>11. g[n] = Brought(m, d, s, Block(d, n))
  BY <1>1
<1> HIDE DEF F, g, to, from
<1>12. f[n] = g[n]
  BY <1>1, <1>10, OneOutcome
<1> QED
  BY <1>7, <1>11, <1>12, Zenon

(* Copied downwards, a block arrives whole when it comes from below. *)
LEMMA CopyDownIs ==
    ASSUME NEW m \in Memory, NEW d, NEW s, NEW n, Blocks(d, s, n), s <= d
    PROVE  CopyDown(m, d, s, n) = Brought(m, d, s, Block(d, n))
<1> DEFINE F(f) == [h \in 0..n |-> IF h = 0 THEN m
                                   ELSE [f[h - 1] EXCEPT ![d + n - h] = f[h - 1][s + n - h]]]
           g == [h \in 0..n |-> Brought(m, d, s, d + n - h..d + n - 1)]
           to == [h \in 1..n |-> d + n - h]
           from == [h \in 1..n |-> s + n - h]
<1>1. d \in Nat /\ s \in Nat /\ n \in Nat /\ d + n <= Size /\ s + n <= Size /\ Addr = 0..Size - 1 /\ Size \in Nat
  BY MemoryIs DEF Blocks
<1>2. Brought(m, d, s, d + n - 0..d + n - 1) = m
  <2>1. d + n - 0..d + n - 1 = {}
    BY <1>1
  <2>2. m = [a \in Addr |-> m[a]]
    BY DEF Memory
  <2> QED
    BY <2>1, <2>2, Zenon DEF Brought
<1>3. ASSUME NEW h \in 1..n
      PROVE  Brought(m, d, s, d + n - h..d + n - 1)
               = [Brought(m, d, s, d + n - (h - 1)..d + n - 1)
                    EXCEPT ![d + n - h] = Brought(m, d, s, d + n - (h - 1)..d + n - 1)[s + n - h]]
  <2>1. PICK t \in Addr, u \in Addr : t = d + n - h /\ u = s + n - h /\ u = s + t - d
    BY <1>1
  <2>2. PICK K : K = d + n - (h - 1)..d + n - 1
    OBVIOUS
  <2>3. u \notin K /\ K \cup {t} = d + n - h..d + n - 1
    BY <1>1, <2>1, <2>2
  <2>4. BringsOne(m, d, s, K, t, u)
    <3>1. d \in Nat /\ s \in Nat /\ u = s + t - d /\ u \notin K
      BY <1>1, <2>1, <2>3
    <3> QED
      BY <3>1, OneBrought, Zenon
  <2> QED
    BY <2>1, <2>2, <2>3, <2>4, Zenon DEF BringsOne
<1>4. g = F(g)
  <2>1. ASSUME NEW h \in 0..n
        PROVE  g[h] = IF h = 0 THEN m ELSE [g[h - 1] EXCEPT ![d + n - h] = g[h - 1][s + n - h]]
    <3>1. CASE h = 0
      BY <1>2, <3>1, Zenon
    <3>2. CASE h # 0
      <4>1. h \in 1..n /\ h - 1 \in 0..n
        BY <1>1, <3>2
      <4>2. g[h] = Brought(m, d, s, d + n - h..d + n - 1) /\ g[h - 1] = Brought(m, d, s, d + n - (h - 1)..d + n - 1)
        BY <4>1, Zenon
      <4> QED
        BY <1>3, <3>2, <4>1, <4>2, Zenon
    <3> QED
      BY <3>1, <3>2
  <2>2. g = [h \in 0..n |-> g[h]]
    OBVIOUS
  <2> HIDE DEF g
  <2> QED
    BY <2>1, <2>2, Zenon
<1>5. PICK f : f = (CHOOSE u : u = F(u))
  OBVIOUS
<1>6. f = F(f)
  <2> HIDE DEF F, g
  <2> QED
    BY <1>4, <1>5, Zenon
<1>7. CopyDown(m, d, s, n) = f[n]
  BY <1>5, Zenon DEF CopyDown, F
<1>8. \A h \in 1..n : to[h] = d + n - h /\ from[h] = s + n - h
  OBVIOUS
<1>9. ASSUME NEW u, u = F(u) PROVE Rounds(u, m, to, from, n)
  <2>1. \A h \in 0..n : u[h] = IF h = 0 THEN m ELSE [u[h - 1] EXCEPT ![d + n - h] = u[h - 1][s + n - h]]
    BY <1>9, Zenon DEF F
  <2>2. \A h \in 0..n : h = 0 \/ h \in 1..n
    BY <1>1
  <2> HIDE DEF to, from, F
  <2> QED
    BY <1>8, <2>1, <2>2, Zenon DEF Rounds
<1>10. Rounds(f, m, to, from, n) /\ Rounds(g, m, to, from, n)
  <2> HIDE DEF F, g, to, from
  <2> QED
    BY <1>4, <1>6, <1>9, Zenon
<1>11. g[n] = Brought(m, d, s, Block(d, n))
  <2>1. n \in 0..n /\ d + n - n..d + n - 1 = Block(d, n)
    BY <1>1 DEF Block
  <2> QED
    BY <2>1, Zenon
<1> HIDE DEF F, g, to, from
<1>12. f[n] = g[n]
  BY <1>1, <1>10, OneOutcome
<1> QED
  BY <1>7, <1>11, <1>12, Zenon

(* memmove brings every block whole. *)
LEMMA MemmoveIs ==
    ASSUME NEW m \in Memory, NEW d, NEW s, NEW n, Blocks(d, s, n)
    PROVE  Memmove(m, d, s, n) = Brought(m, d, s, Block(d, n))
<1>1. d \in Nat /\ s \in Nat
  BY DEF Blocks
<1>2. CASE s > d
  <2>1. d <= s
    BY <1>1, <1>2
  <2>2. CopyUp(m, d, s, n) = Brought(m, d, s, Block(d, n))
    BY <2>1, CopyUpIs
  <2> QED
    BY <1>2, <2>2, Zenon DEF Memmove
<1>3. CASE s < d
  <2>1. s <= d /\ ~(s > d)
    BY <1>1, <1>3
  <2>2. CopyDown(m, d, s, n) = Brought(m, d, s, Block(d, n))
    BY <2>1, CopyDownIs
  <2> QED
    BY <1>3, <2>1, <2>2, Zenon DEF Memmove
<1>4. CASE s = d
  <2>1. ~(s > d) /\ ~(s < d)
    BY <1>1, <1>4
  <2>2. \A a \in Addr : s + a - d = a
    BY <1>1, <1>4, MemoryIs
  <2>3. m = [a \in Addr |-> m[a]]
    BY DEF Memory
  <2>4. Brought(m, d, s, Block(d, n)) = m
    BY <2>2, <2>3 DEF Brought
  <2> QED
    BY <2>1, <2>4, Zenon DEF Memmove
<1> QED
  BY <1>1, <1>2, <1>3, <1>4

(* What copying c characters from s to d leaves in memory. *)
Arrived(b, m, d, s, c) ==
    /\ b \in Memory
    /\ \A h \in 0..c - 1 : b[d + h] = m[s + h]
    /\ \A a \in Addr : a \notin Block(d, c) => b[a] = m[a]

(* A block that was brought has arrived. *)
LEMMA BroughtIs ==
    ASSUME NEW m \in Memory, NEW d, NEW s, NEW c, Blocks(d, s, c)
    PROVE  Arrived(Brought(m, d, s, Block(d, c)), m, d, s, c)
<1>1. d \in Nat /\ s \in Nat /\ c \in Nat /\ d + c <= Size /\ s + c <= Size /\ Addr = 0..Size - 1 /\ Size \in Nat
  BY MemoryIs DEF Blocks
<1>2. PICK b : b = Brought(m, d, s, Block(d, c))
  OBVIOUS
<1>3. b = [a \in Addr |-> IF a \in Block(d, c) THEN m[s + a - d] ELSE m[a]]
  BY <1>2, Zenon DEF Brought
<1>4. ASSUME NEW a \in Addr, a \in Block(d, c) PROVE s + a - d \in Addr
  BY <1>1, <1>4 DEF Block
<1>5. ASSUME NEW a \in Addr PROVE (IF a \in Block(d, c) THEN m[s + a - d] ELSE m[a]) \in Value
  BY <1>4, <1>5, Zenon DEF Memory
<1>6. b \in Memory
  BY <1>3, <1>5, Zenon DEF Memory
<1>7. ASSUME NEW h \in 0..c - 1 PROVE b[d + h] = m[s + h]
  <2>1. PICK a \in Addr : a = d + h /\ a \in Block(d, c) /\ s + a - d = s + h
    BY <1>1 DEF Block
  <2> QED
    BY <1>3, <2>1, Zenon
<1>8. \A a \in Addr : a \notin Block(d, c) => b[a] = m[a]
  BY <1>3, Zenon
<1> QED
  BY <1>2, <1>6, <1>7, <1>8, Zenon DEF Arrived

(* Room for some characters at d, away from the string at s. *)
Apart(d, room, s, l) ==
    room \in Nat /\ Block(d, room) \subseteq Addr /\ Block(d, room) \cap Block(s, l + 1) = {}

(* As numbers. *)
LEMMA ApartIs ==
    ASSUME NEW d \in Addr, NEW s \in Addr, NEW l \in Nat, s + l < Size, NEW room, Apart(d, room, s, l)
    PROVE  d + room <= Size /\ (room = 0 \/ d + room <= s \/ s + l < d)
<1>1. d \in Nat /\ s \in Nat /\ room \in Nat /\ Size \in Nat /\ Addr = 0..Size - 1 /\ d < Size
  BY MemoryIs DEF Apart
<1>2. CASE room = 0
  BY <1>1, <1>2
<1>3. CASE room # 0
  <2>1. d + room - 1 \in Block(d, room) /\ d \in Block(d, room)
    BY <1>1, <1>3 DEF Block
  <2>2. d + room <= Size
    BY <1>1, <2>1 DEF Apart
  <2>3. s \in Block(s, l + 1) /\ (s <= d /\ d <= s + l => d \in Block(s, l + 1))
    BY <1>1 DEF Block
  <2>4. d <= s /\ s < d + room => s \in Block(d, room)
    BY <1>1 DEF Block
  <2>5. ~(d <= s /\ s < d + room) /\ ~(s <= d /\ d <= s + l)
    BY <2>1, <2>3, <2>4 DEF Apart
  <2> QED
    BY <1>1, <2>2, <2>5
<1> QED
  BY <1>2, <1>3

(* Characters of a string copied to where there is room for them have arrived. *)
LEMMA CopyArrived ==
    ASSUME NEW m \in Memory, NEW d \in Addr, NEW s \in Addr, NEW l, TextAt(m, s, l), NEW room, Apart(d, room, s, l),
           NEW c \in Nat, c <= room, c <= l + 1
    PROVE  Arrived(CopyUp(m, d, s, c), m, d, s, c)
<1>1. d \in Nat /\ s \in Nat /\ room \in Nat /\ l \in Nat /\ Size \in Nat /\ s + l < Size
  BY MemoryIs DEF Apart, TextAt
<1>2. d + room <= Size /\ (room = 0 \/ d + room <= s \/ s + l < d)
  BY <1>1, ApartIs
<1>3. Blocks(d, s, c)
  BY <1>1, <1>2 DEF Blocks
<1>4. Arrived(Brought(m, d, s, Block(d, c)), m, d, s, c)
  BY <1>3, BroughtIs
<1>5. CASE c = 0
  <2>1. d <= s \/ s + c <= d
    BY <1>1, <1>5
  <2> QED
    BY <1>3, <1>4, <2>1, CopyUpIs
<1>6. CASE c # 0
  <2>1. d <= s \/ s + c <= d
    BY <1>1, <1>2, <1>6
  <2> QED
    BY <1>3, <1>4, <2>1, CopyUpIs
<1> QED
  BY <1>5, <1>6

(* Two memories hold the same string when the characters are the same. *)
LEMMA SameStr ==
    ASSUME NEW m \in Memory, NEW b \in Memory, NEW p \in Addr, NEW q \in Addr, NEW l,
           TextAt(m, p, l), TextAt(b, q, l), \A h \in 0..l - 1 : b[q + h] = m[p + h]
    PROVE  Str(b, q) = Str(m, p)
<1>1. l \in Nat /\ p \in Nat /\ q \in Nat
  BY MemoryIs DEF TextAt
<1>2. Str(m, p) = [h \in 1..l |-> m[p + h - 1]] /\ Str(b, q) = [h \in 1..l |-> b[q + h - 1]]
  BY StrIs
<1>3. ASSUME NEW n \in 1..l PROVE b[q + n - 1] = m[p + n - 1]
  <2>1. PICK h \in 0..l - 1 : h = n - 1 /\ q + n - 1 = q + h /\ p + n - 1 = p + h
    BY <1>1
  <2>2. b[q + h] = m[p + h]
    OBVIOUS
  <2> QED
    BY <2>1, <2>2, Zenon
<1> QED
  BY <1>2, <1>3, Zenon

(* Memory was written in a block only. *)
WrittenIn(b, m, d, room) == b \in Memory /\ \A a \in Addr : a \notin Block(d, room) => b[a] = m[a]

(* A string elsewhere is as it was. *)
LEMMA StaysText ==
    ASSUME NEW m \in Memory, NEW b, NEW d \in Addr, NEW s \in Addr, NEW l, TextAt(m, s, l),
           NEW room, Apart(d, room, s, l), WrittenIn(b, m, d, room)
    PROVE  Str(b, s) = Str(m, s)
<1>1. d \in Nat /\ s \in Nat /\ l \in Nat /\ Size \in Nat /\ s + l < Size /\ Addr = 0..Size - 1
  BY MemoryIs DEF TextAt
<1>2. ASSUME NEW h \in 0..l PROVE b[s + h] = m[s + h]
  <2>1. PICK a \in Addr : a = s + h /\ a \in Block(s, l + 1)
    BY <1>1 DEF Block
  <2>2. a \notin Block(d, room)
    BY <2>1, Zenon DEF Apart
  <2> QED
    BY <2>1, <2>2, Zenon DEF WrittenIn
<1>3. TextAt(b, s, l)
  <2>1. l \in 0..l /\ \A h \in 0..l - 1 : h \in 0..l
    BY <1>1
  <2> QED
    BY <1>2, <2>1, Zenon DEF TextAt
<1>4. b \in Memory
  BY DEF WrittenIn
<1>5. \A h \in 0..l - 1 : b[s + h] = m[s + h]
  BY <1>1, <1>2
<1> QED
  BY <1>3, <1>4, <1>5, SameStr

(* What arrived is within its room. *)
LEMMA ArrivedIn ==
    ASSUME NEW m \in Memory, NEW b, NEW d \in Addr, NEW s \in Addr, NEW c \in Nat, NEW room \in Nat, c <= room,
           Arrived(b, m, d, s, c)
    PROVE  WrittenIn(b, m, d, room)
<1>1. \A a \in Addr : a \notin Block(d, room) => a \notin Block(d, c)
  BY MemoryIs DEF Block
<1> QED
  BY <1>1, Zenon DEF Arrived, WrittenIn

(* With its terminator a string is a string at its destination. *)
LEMMA WholeArrived ==
    ASSUME NEW m \in Memory, NEW b, NEW d \in Addr, NEW s \in Addr, NEW l, TextAt(m, s, l),
           d + l < Size, Arrived(b, m, d, s, l + 1)
    PROVE  Str(b, d) = Str(m, s)
<1>1. d \in Nat /\ s \in Nat /\ l \in Nat /\ Size \in Nat
  BY MemoryIs DEF TextAt
<1>2. ASSUME NEW h \in 0..l PROVE b[d + h] = m[s + h]
  <2>1. h \in 0..(l + 1) - 1
    BY <1>1
  <2> QED
    BY <2>1, Zenon DEF Arrived
<1>3. TextAt(b, d, l)
  <2>1. l \in 0..l /\ \A h \in 0..l - 1 : h \in 0..l
    BY <1>1
  <2> QED
    BY <1>1, <1>2, <2>1, Zenon DEF TextAt
<1>4. b \in Memory
  BY DEF Arrived
<1>5. \A h \in 0..l - 1 : b[d + h] = m[s + h]
  BY <1>1, <1>2
<1> QED
  BY <1>3, <1>4, <1>5, SameStr

(* Memory with a terminator at a. *)
Terminated(m, a) == [m EXCEPT ![a] = 0]

(* The first characters of a string and a terminator are the string of these. *)
LEMMA FirstArrived ==
    ASSUME NEW m \in Memory, NEW b, NEW d \in Addr, NEW s \in Addr, NEW l, TextAt(m, s, l),
           NEW c \in Nat, c <= l, d + c < Size, Arrived(b, m, d, s, c),
           NEW e, e = Terminated(b, d + c)
    PROVE  Str(e, d) = Cells(m, s, c) /\ WrittenIn(e, m, d, c + 1)
<1>1. d \in Nat /\ s \in Nat /\ l \in Nat /\ Size \in Nat /\ b \in Memory
  BY MemoryIs DEF TextAt, Arrived
<1>2. PICK t \in Addr : t = d + c
  BY <1>1, MemoryIs
<1>3. e = [b EXCEPT ![t] = 0]
  BY <1>2, Zenon DEF Terminated
<1>4. e \in Memory /\ e[t] = 0 /\ \A a \in Addr : a # t => e[a] = b[a]
  <2>1. 0 \in Value
    BY DEF Value
  <2> QED
    BY <1>1, <1>3, <2>1 DEF Memory
<1>5. ASSUME NEW h \in 0..c - 1 PROVE e[d + h] = m[s + h] /\ m[s + h] # 0
  <2>1. PICK a \in Addr : a = d + h /\ a # t
    BY <1>1, <1>2, MemoryIs
  <2>2. h \in 0..l - 1
    BY <1>1
  <2> QED
    BY <1>4, <2>1, <2>2, Zenon DEF Arrived, TextAt
<1>6. TextAt(e, d, c)
  BY <1>2, <1>4, <1>5, Zenon DEF TextAt
<1>7. Str(e, d) = [h \in 1..c |-> e[d + h - 1]]
  BY <1>4, <1>6, StrIs
<1>8. ASSUME NEW n \in 1..c PROVE e[d + n - 1] = m[s + n - 1]
  <2>1. PICK h \in 0..c - 1 : h = n - 1 /\ d + n - 1 = d + h /\ s + n - 1 = s + h
    BY <1>1
  <2> QED
    BY <1>5, <2>1, Zenon
<1>9. Str(e, d) = Cells(m, s, c)
  BY <1>7, <1>8, Zenon DEF Cells
<1>10. ASSUME NEW a \in Addr, a \notin Block(d, c + 1) PROVE e[a] = m[a]
  <2>1. a # t /\ a \notin Block(d, c)
    BY <1>1, <1>2, <1>10, MemoryIs DEF Block
  <2> QED
    BY <1>4, <2>1, Zenon DEF Arrived
<1>11. WrittenIn(e, m, d, c + 1)
  BY <1>4, <1>10, Zenon DEF WrittenIn
<1> QED
  BY <1>9, <1>11

(* A sequence begins with another one if their elements agree. *)
LEMMA PrefixIs ==
    ASSUME NEW S, NEW u \in Seq(S), NEW v \in Seq(S), Len(u) <= Len(v), \A h \in 1..Len(u) : u[h] = v[h]
    PROVE  IsPrefix(u, v)
<1>1. Len(u) \in Nat /\ Len(v) \in Nat
  BY LenProperties
<1>2. PICK one \in Int, c \in Nat : one = 1 /\ c = Len(u)
  BY <1>1
<1>3. /\ c - one + 1 = c /\ (~(one <= c) => c = 0) /\ \A h \in 1..c : one + h - 1 = h
      /\ \A h \in one..c : h \in 1..Len(u) /\ h \in 1..Len(v)
  BY <1>1, <1>2
<1>4. \A h \in one..c : u[h] \in S /\ v[h] \in S
  BY <1>3, ElementOfSeq
<1>5. /\ SubSeq(u, one, c) \in Seq(S)
      /\ Len(SubSeq(u, one, c)) = IF one <= c THEN c - one + 1 ELSE 0
      /\ \A h \in 1..c - one + 1 : SubSeq(u, one, c)[h] = u[one + h - 1]
  BY <1>4, SubSeqProperties
<1>6. /\ SubSeq(v, one, c) \in Seq(S)
      /\ Len(SubSeq(v, one, c)) = IF one <= c THEN c - one + 1 ELSE 0
      /\ \A h \in 1..c - one + 1 : SubSeq(v, one, c)[h] = v[one + h - 1]
  BY <1>4, SubSeqProperties
<1>7. PICK x, y : x = SubSeq(u, one, c) /\ y = SubSeq(v, one, c)
  OBVIOUS
<1>8. /\ x \in Seq(S) /\ y \in Seq(S) /\ Len(x) = c /\ Len(y) = c
      /\ \A h \in 1..c : x[h] = y[h]
  <2>1. x \in Seq(S) /\ y \in Seq(S)
    BY <1>5, <1>6, <1>7, Zenon
  <2>2. Len(x) = c /\ Len(y) = c
    <3>1. (IF one <= c THEN c - one + 1 ELSE 0) = c
      BY <1>3
    <3> QED
      BY <1>5, <1>6, <1>7, <3>1, Zenon
  <2>3. ASSUME NEW h \in 1..c PROVE x[h] = y[h]
    <3>1. one + h - 1 = h /\ h \in 1..c - one + 1
      BY <1>3, <2>3, Zenon
    <3>2. u[h] = v[h]
      BY <1>2, Zenon
    <3>3. x[h] = u[one + h - 1] /\ y[h] = v[one + h - 1]
      BY <1>5, <1>6, <1>7, <3>1, Zenon
    <3> QED
      BY <3>1, <3>2, <3>3, Zenon
  <2> QED
    BY <2>1, <2>2, <2>3, Zenon
<1>9. x = y
  BY <1>8, SeqEqual
<1> QED
  BY <1>2, <1>7, <1>9, Zenon DEF IsPrefix

(* The cells of a string are a sequence of characters. *)
LEMMA CellsAre ==
    ASSUME NEW m \in Memory, NEW p \in Addr, NEW l \in Nat, p + l <= Size
    PROVE  Cells(m, p, l) \in Seq(Value) /\ Len(Cells(m, p, l)) = l
<1>1. \A h \in 1..l : m[p + h - 1] \in Value
  <2> SUFFICES ASSUME NEW h \in 1..l PROVE m[p + h - 1] \in Value
    OBVIOUS
  <2>1. p + h - 1 \in Addr
    BY MemoryIs
  <2> QED
    BY <2>1, Zenon DEF Memory
<1>2. Cells(m, p, l) \in [1..l -> Value]
  BY <1>1, Zenon DEF Cells
<1> QED
  BY <1>2, TextCounted, Zenon

(* What strncpy copies is the beginning of what is at the destination. *)
LEMMA PrefixArrived ==
    ASSUME NEW m \in Memory, NEW b, NEW d \in Addr, NEW s \in Addr, NEW l, TextAt(m, s, l),
           NEW n \in Nat, d + n <= Size, NEW k \in Nat, k <= l, k <= n,
           NEW c \in Nat, k <= c, Arrived(b, m, d, s, c)
    PROVE  IsPrefix(Cells(m, s, k), Cells(b, d, Size - d))
<1>1. d \in Nat /\ s \in Nat /\ l \in Nat /\ Size \in Nat /\ b \in Memory /\ d < Size /\ s + l < Size
  BY MemoryIs DEF TextAt, Arrived
<1>2. PICK r \in Nat : r = Size - d
  BY <1>1
<1>3. s + k <= Size /\ d + r <= Size /\ k <= r
  BY <1>1, <1>2
<1>4. PICK u, v : u = Cells(m, s, k) /\ v = Cells(b, d, r)
  OBVIOUS
<1>5. u \in Seq(Value) /\ v \in Seq(Value) /\ Len(u) = k /\ Len(v) = r
  BY <1>1, <1>3, <1>4, CellsAre
<1>6. ASSUME NEW h \in 1..k PROVE u[h] = v[h]
  <2>1. PICK j \in 0..c - 1 : j = h - 1 /\ s + h - 1 = s + j /\ d + h - 1 = d + j /\ h \in 1..r
    BY <1>1, <1>3
  <2>2. u[h] = m[s + h - 1] /\ v[h] = b[d + h - 1]
    BY <1>4, <2>1, Zenon DEF Cells
  <2> QED
    BY <2>1, <2>2, Zenon DEF Arrived
<1>7. IsPrefix(u, v)
  BY <1>3, <1>5, <1>6, PrefixIs
<1> QED
  BY <1>2, <1>4, <1>7, Zenon

(* A string copied behind another one is appended to it. *)
LEMMA CatArrived ==
    ASSUME NEW m \in Memory, NEW b, NEW d \in Addr, NEW s \in Addr, NEW l, NEW k, TextAt(m, s, l), TextAt(m, d, k),
           NEW e \in Addr, e = d + k, e + l < Size, Arrived(b, m, e, s, l + 1)
    PROVE  Str(b, d) = Str(m, d) \o Str(m, s)
<1>1. d \in Nat /\ s \in Nat /\ l \in Nat /\ k \in Nat /\ Size \in Nat /\ b \in Memory /\ Addr = 0..Size - 1
  BY MemoryIs DEF TextAt, Arrived
<1>2. ASSUME NEW h \in 0..k - 1 PROVE b[d + h] = m[d + h]
  <2>1. PICK a \in Addr : a = d + h /\ a \notin Block(e, l + 1)
    BY <1>1 DEF Block
  <2> QED
    BY <2>1, Zenon DEF Arrived
<1>3. ASSUME NEW h \in k..k + l PROVE b[d + h] = m[s + (h - k)]
  <2>1. PICK j \in 0..(l + 1) - 1 : j = h - k /\ d + h = e + j
    BY <1>1
  <2> QED
    BY <2>1, Zenon DEF Arrived
<1>4. PICK r \in Nat : r = k + l
  BY <1>1
<1>5. TextAt(b, d, r)
  <2>1. b[d + r] = 0
    <3>1. r \in k..k + l /\ r - k = l
      BY <1>1, <1>4
    <3>2. b[d + r] = m[s + (r - k)]
      BY <1>3, <3>1
    <3> QED
      BY <3>1, <3>2, Zenon DEF TextAt
  <2>2. ASSUME NEW h \in 0..r - 1 PROVE b[d + h] # 0
    <3>1. CASE h < k
      <4>1. h \in 0..k - 1
        BY <1>1, <1>4, <3>1
      <4> QED
        BY <1>2, <4>1, Zenon DEF TextAt
    <3>2. CASE ~(h < k)
      <4>1. PICK j \in 0..l - 1 : j = h - k /\ h \in k..k + l
        BY <1>1, <1>4, <3>2
      <4> QED
        BY <1>3, <4>1, Zenon DEF TextAt
    <3> QED
      BY <3>1, <3>2
  <2>3. d + r < Size
    BY <1>1, <1>4
  <2> QED
    BY <2>1, <2>2, <2>3, Zenon DEF TextAt
<1>6. PICK x, y, z : x = Str(m, d) /\ y = Str(m, s) /\ z = Str(b, d)
  OBVIOUS
<1>7. /\ x \in Seq(Value) /\ Len(x) = k /\ x = [h \in 1..k |-> m[d + h - 1]]
      /\ y \in Seq(Value) /\ Len(y) = l /\ y = [h \in 1..l |-> m[s + h - 1]]
      /\ z \in Seq(Value) /\ Len(z) = r /\ z = [h \in 1..r |-> b[d + h - 1]]
  BY <1>1, <1>5, <1>6, StrIs
<1>8. /\ x \o y \in Seq(Value) /\ Len(x \o y) = r
      /\ \A h \in 1..r : (x \o y)[h] = IF h <= k THEN x[h] ELSE y[h - k]
  <2>1. /\ x \o y \in Seq(Value) /\ Len(x \o y) = Len(x) + Len(y)
        /\ \A h \in 1..Len(x) + Len(y) : (x \o y)[h] = IF h <= Len(x) THEN x[h] ELSE y[h - Len(x)]
    <3>1. x \in Seq(Value) /\ y \in Seq(Value)
      BY <1>7, Zenon
    <3> QED
      BY <3>1, ConcatProperties, Zenon
  <2> QED
    BY <1>4, <1>7, <2>1, Zenon
<1>9. ASSUME NEW h \in 1..r PROVE (x \o y)[h] = z[h]
  <2>1. CASE h <= k
    <3>1. PICK j \in 0..k - 1 : j = h - 1 /\ d + h - 1 = d + j /\ h \in 1..k
      BY <1>1, <2>1
    <3>2. z[h] = b[d + j] /\ x[h] = m[d + j]
      BY <1>7, <3>1, Zenon
    <3> QED
      BY <1>2, <1>8, <2>1, <3>2, Zenon
  <2>2. CASE ~(h <= k)
    <3>1. PICK j \in k..k + l, n \in 1..l : /\ j = h - 1 /\ d + h - 1 = d + j
                                           /\ n = h - k /\ s + n - 1 = s + (j - k)
      BY <1>1, <1>4, <2>2
    <3>2. z[h] = b[d + j] /\ y[n] = m[s + (j - k)]
      BY <1>7, <3>1, Zenon
    <3> QED
      BY <1>3, <1>8, <2>2, <3>1, <3>2, Zenon
  <2> QED
    BY <2>1, <2>2
<1>10. x \o y = z
  BY <1>7, <1>8, <1>9, SeqEqual
<1> QED
  BY <1>6, <1>10, Zenon

(* CopyArrives of a memory before and after a call. *)
Arrives(m, b, op, d, s, n) ==
    LET source == Str(m, s)
        first == SubSeq(source, 1, Min({n, Len(source)}))
    IN  /\ op = "move" => \A a \in Addr : b[a] = IF a \in Block(d, n) THEN m[s + a - d] ELSE m[a]
        /\ op = "copy" => Str(b, d) = source
        /\ op = "ndup" => Str(b, d) = first
        /\ op = "ncopy" =>
              /\ IsPrefix(first, [h \in 1..Size - d |-> b[d + h - 1]])
              /\ n > Len(source) => Str(b, d) = source
        /\ op = "cat" => Str(b, d) = Str(m, d) \o source
        /\ op \in {"copy", "ndup", "ncopy", "cat"} => Str(b, s) = source

(* memcpy and memmove. *)
LEMMA MoveArrives ==
    ASSUME NEW m \in Memory, NEW d, NEW s, NEW n, Blocks(d, s, n), NEW b, b = Brought(m, d, s, Block(d, n))
    PROVE  b \in Memory /\ Arrives(m, b, "move", d, s, n)
<1>1. b \in Memory
  BY BroughtIs DEF Arrived
<1>2. \A a \in Addr : b[a] = IF a \in Block(d, n) THEN m[s + a - d] ELSE m[a]
  BY Zenon DEF Brought
<1> QED
  BY <1>1, <1>2 DEF Arrives

(* A string of l characters at s, and room for others at d. *)
Copying(m, d, s, l, room) == TextAt(m, s, l) /\ Apart(d, room, s, l)

(* strcpy and strdup. *)
LEMMA StrcpyArrives ==
    ASSUME NEW m \in Memory, NEW d \in Addr, NEW s \in Addr, NEW l, NEW n, n = l + 1, Copying(m, d, s, l, n),
           NEW b, b = Strcpy(m, d, s)
    PROVE  b \in Memory /\ Arrives(m, b, "copy", d, s, n)
<1>1. TextAt(m, s, l) /\ Apart(d, n, s, l) /\ l \in Nat /\ n \in Nat /\ n <= n /\ Size \in Nat /\ d \in Nat
  BY MemoryIs DEF Copying, TextAt, Apart
<1>2. b = CopyUp(m, d, s, n)
  BY <1>1, TextEnds, Zenon DEF Strcpy
<1>3. Arrived(b, m, d, s, n)
  BY <1>1, <1>2, CopyArrived
<1>4. d + l < Size
  BY <1>1, ApartIs DEF TextAt
<1>5. Str(b, d) = Str(m, s)
  BY <1>1, <1>3, <1>4, WholeArrived
<1>6. Str(b, s) = Str(m, s)
  <2>1. WrittenIn(b, m, d, n)
    BY <1>1, <1>3, ArrivedIn
  <2> QED
    BY <1>1, <2>1, StaysText
<1>7. b \in Memory
  BY <1>3 DEF Arrived
<1> QED
  BY <1>5, <1>6, <1>7 DEF Arrives

(* strndup. *)
LEMMA StrndupArrives ==
    ASSUME NEW m \in Memory, NEW d \in Addr, NEW s \in Addr, NEW l, NEW n \in Nat, TextAt(m, s, l),
           Copying(m, d, s, l, Min({n, l}) + 1), NEW b, b = Strndup(m, d, s, n)
    PROVE  b \in Memory /\ Arrives(m, b, "ndup", d, s, n)
<1>1. l \in Nat /\ Strlen(m, s) = l /\ Size \in Nat /\ d \in Nat
  BY TextEnds, MemoryIs DEF TextAt
<1>2. PICK c \in Nat : c = Min({n, l}) /\ c <= l /\ c <= n
  BY <1>1, MinOfTwo
<1>3. Apart(d, c + 1, s, l) /\ c + 1 \in Nat /\ c <= c + 1 /\ c <= l + 1
  BY <1>1, <1>2 DEF Copying
<1>4. PICK e : e = CopyUp(m, d, s, c)
  OBVIOUS
<1>5. Arrived(e, m, d, s, c)
  BY <1>2, <1>3, <1>4, CopyArrived
<1>6. b = Terminated(e, d + c)
  BY <1>1, <1>2, <1>4, Zenon DEF Strndup, Terminated
<1>7. d + c < Size
  <2>1. PICK r \in Nat : r = c + 1
    BY <1>3
  <2>2. Apart(d, r, s, l)
    BY <1>3, <2>1, Zenon
  <2>3. s + l < Size
    BY DEF TextAt
  <2>4. d + r <= Size
    BY <1>1, <2>2, <2>3, ApartIs
  <2> QED
    BY <1>1, <1>2, <2>1, <2>4
<1>8. Str(b, d) = Cells(m, s, c) /\ WrittenIn(b, m, d, c + 1)
  <2>1. c <= l /\ b = Terminated(e, d + c)
    BY <1>2, <1>6, Zenon
  <2>2. Str(b, d) = Cells(m, s, c)
    BY <1>5, <1>7, <2>1, FirstArrived
  <2>3. WrittenIn(b, m, d, c + 1)
    BY <1>5, <1>7, <2>1, FirstArrived, Zenon
  <2> QED
    BY <2>2, <2>3
<1>9. Str(b, s) = Str(m, s)
  BY <1>3, <1>8, StaysText
<1>10. SubSeq(Str(m, s), 1, Min({n, Len(Str(m, s))})) = Cells(m, s, c)
  <2>1. First(m, s, n) = Cells(m, s, c)
    BY <1>2, FirstIs
  <2>2. Len(Str(m, s)) = l
    BY StrIs
  <2> QED
    BY <1>1, <2>1, <2>2, Zenon DEF First
<1>11. b \in Memory
  BY <1>8 DEF WrittenIn
<1> QED
  BY <1>8, <1>9, <1>10, <1>11 DEF Arrives

(* strncpy. *)
LEMMA StrncpyArrives ==
    ASSUME NEW m \in Memory, NEW d \in Addr, NEW s \in Addr, NEW l, NEW n \in Nat, TextAt(m, s, l),
           Copying(m, d, s, l, n), NEW b, b = Strncpy(m, d, s, n)
    PROVE  b \in Memory /\ Arrives(m, b, "ncopy", d, s, n)
<1>1. l \in Nat /\ Strlen(m, s) = l /\ Size \in Nat /\ d \in Nat /\ d < Size /\ Len(Str(m, s)) = l
  <2>1. Len(Str(m, s)) = l
    BY StrIs
  <2>2. Strlen(m, s) = l
    BY TextEnds
  <2> QED
    BY <2>1, <2>2, MemoryIs DEF TextAt
<1>2. PICK k \in Nat : k = Min({n, l}) /\ k <= l /\ k <= n /\ k \in {n, l}
  BY <1>1, MinOfTwo
<1>3. PICK c \in Nat : c = Min({n, l + 1}) /\ c <= l + 1 /\ c <= n /\ c \in {n, l + 1}
  <2>1. l + 1 \in Nat
    BY <1>1
  <2> QED
    BY <2>1, MinOfTwo
<1>4. k <= c /\ Apart(d, n, s, l)
  BY <1>1, <1>2, <1>3 DEF Copying
<1>5. b = CopyUp(m, d, s, c)
  BY <1>1, <1>3, Zenon DEF Strncpy
<1>6. Arrived(b, m, d, s, c)
  BY <1>3, <1>4, <1>5, CopyArrived
<1>7. d + n <= Size
  BY <1>1, <1>4, ApartIs DEF TextAt
<1>8. IsPrefix(Cells(m, s, k), Cells(b, d, Size - d))
  BY <1>2, <1>3, <1>4, <1>6, <1>7, PrefixArrived
<1>9. SubSeq(Str(m, s), 1, Min({n, Len(Str(m, s))})) = Cells(m, s, k)
  <2>1. First(m, s, n) = Cells(m, s, k)
    BY <1>2, FirstIs
  <2> QED
    BY <1>1, <2>1, Zenon DEF First
<1>10. ASSUME n > l PROVE Str(b, d) = Str(m, s)
  <2>1. c = l + 1 /\ d + l < Size
    BY <1>1, <1>3, <1>7, <1>10
  <2>2. Arrived(b, m, d, s, l + 1)
    BY <1>6, <2>1, Zenon
  <2> QED
    BY <2>1, <2>2, WholeArrived
<1>11. Str(b, s) = Str(m, s)
  <2>1. WrittenIn(b, m, d, n)
    BY <1>3, <1>6, ArrivedIn
  <2> QED
    BY <1>4, <2>1, StaysText
<1>12. b \in Memory
  BY <1>6 DEF Arrived
<1>13. IsPrefix(SubSeq(Str(m, s), 1, Min({n, Len(Str(m, s))})), [h \in 1..Size - d |-> b[d + h - 1]])
  BY <1>8, <1>9, Zenon DEF Cells
<1> QED
  BY <1>1, <1>10, <1>11, <1>12, <1>13 DEF Arrives

(* strcat. *)
LEMMA StrcatArrives ==
    ASSUME NEW m \in Memory, NEW d \in Addr, NEW s \in Addr, NEW l, NEW k, NEW n, TextAt(m, s, l), TextAt(m, d, k),
           Copying(m, d, s, l, k + (l + 1)), NEW b, b = Strcat(m, d, s)
    PROVE  b \in Memory /\ Arrives(m, b, "cat", d, s, n)
<1>1. /\ l \in Nat /\ k \in Nat /\ Strlen(m, s) = l /\ EndOf(m, d) = d + k /\ Size \in Nat /\ d \in Nat
      /\ d + k < Size /\ s + l < Size /\ s \in Nat
  BY TextEnds, MemoryIs DEF TextAt
<1>2. PICK room \in Nat : room = k + (l + 1)
  BY <1>1
<1>3. PICK e \in Addr : e = d + k
  BY <1>1, MemoryIs
<1>4. Apart(d, room, s, l)
  BY <1>2 DEF Copying
<1>5. d + room <= Size
  BY <1>1, <1>4, ApartIs
<1>6. PICK c \in Nat : c = l + 1 /\ c <= c
  BY <1>1
<1>7. Apart(e, c, s, l)
  <2>1. ASSUME NEW a \in Block(e, c) PROVE a \in Block(d, room)
    BY <1>1, <1>2, <1>3, <1>6 DEF Block
  <2> QED
    BY <1>4, <2>1 DEF Apart
<1>8. b = CopyUp(m, e, s, c)
  BY <1>1, <1>3, <1>6, Zenon DEF Strcat
<1>9. Arrived(b, m, e, s, c)
  BY <1>6, <1>7, <1>8, CopyArrived
<1>10. e + l < Size
  BY <1>1, <1>2, <1>3, <1>5
<1>11. Str(b, d) = Str(m, d) \o Str(m, s)
  <2>1. Arrived(b, m, e, s, l + 1)
    BY <1>6, <1>9, Zenon
  <2> QED
    BY <1>3, <1>10, <2>1, CatArrived
<1>12. Str(b, s) = Str(m, s)
  <2>1. WrittenIn(b, m, e, c)
    BY <1>6, <1>9, ArrivedIn
  <2> QED
    BY <1>7, <2>1, StaysText
<1>13. b \in Memory
  BY <1>9 DEF Arrived
<1> QED
  BY <1>11, <1>12, <1>13 DEF Arrives

-----------------------------------------------------------------------------
(* strtok *)

(* The terminator is no delimiter. *)
LEMMA EndIsNoDelimiter == Delims \subseteq Value /\ 0 \notin Delims
  BY StringsAssumption DEF Value

SpanOf(m, p, l, g) ==
    /\ g \in 0..l /\ Strspn(m, p, Delims) = g
    /\ m[p + g] \notin Delims
    /\ \A h \in 0..g - 1 : m[p + h] \in Delims

(* strspn skips the delimiters a string begins with. *)
LEMMA SpanIs ==
    ASSUME NEW m \in Memory, NEW p \in Addr, NEW l, TextAt(m, p, l)
    PROVE  \E g : SpanOf(m, p, l, g)
<1> DEFINE T == {h \in 0..l : m[p + h] \notin Delims}
<1>1. l \in Nat /\ Strlen(m, p) = l
  BY TextEnds DEF TextAt
<1>2. Strspn(m, p, Delims) = Min(T)
  BY <1>1, Zenon DEF Strspn
<1>3. T \subseteq Nat /\ l \in T
  BY <1>1, EndIsNoDelimiter DEF TextAt
<1>4. PICK g : g = Min(T)
  OBVIOUS
<1>5. g \in T /\ \A h \in T : g <= h
  <2> HIDE DEF T
  <2> QED
    BY <1>3, <1>4, MinIs
<1>6. g \in 0..l /\ m[p + g] \notin Delims
  BY <1>5
<1>7. ASSUME NEW h \in 0..g - 1 PROVE m[p + h] \in Delims
  <2>1. h \in 0..l /\ ~(g <= h)
    BY <1>1, <1>6
  <2> QED
    BY <1>5, <2>1
<1> HIDE DEF T
<1> QED
  BY <1>2, <1>4, <1>6, <1>7, Zenon DEF SpanOf

RunOf(m, p, l, c) ==
    /\ c \in 0..l /\ Strcspn(m, p, Delims) = c
    /\ m[p + c] \in Delims \cup {0}
    /\ \A h \in 0..c - 1 : m[p + h] \notin Delims

(* strcspn runs to the delimiter behind a word, or to the end of the string. *)
LEMMA RunIs ==
    ASSUME NEW m \in Memory, NEW p \in Addr, NEW l, TextAt(m, p, l)
    PROVE  \E c : RunOf(m, p, l, c)
<1> DEFINE T == {h \in 0..l : m[p + h] \in Delims \cup {0}}
<1>1. l \in Nat /\ Strlen(m, p) = l
  BY TextEnds DEF TextAt
<1>2. Strcspn(m, p, Delims) = Min(T)
  BY <1>1, Zenon DEF Strcspn
<1>3. T \subseteq Nat /\ l \in T
  BY <1>1 DEF TextAt
<1>4. PICK c : c = Min(T)
  OBVIOUS
<1>5. c \in T /\ \A h \in T : c <= h
  <2> HIDE DEF T
  <2> QED
    BY <1>3, <1>4, MinIs
<1>6. c \in 0..l /\ m[p + c] \in Delims \cup {0}
  BY <1>5
<1>7. ASSUME NEW h \in 0..c - 1 PROVE m[p + h] \notin Delims
  <2>1. h \in 0..l /\ ~(c <= h)
    BY <1>1, <1>6
  <2> QED
    BY <1>5, <2>1
<1> HIDE DEF T
<1> QED
  BY <1>2, <1>4, <1>6, <1>7, Zenon DEF RunOf

(* A string without its first characters. *)
LEMMA RestIsText ==
    ASSUME NEW m \in Memory, NEW p \in Addr, NEW l, TextAt(m, p, l), NEW g \in 0..l
    PROVE  p + g \in Addr /\ TextAt(m, p + g, l - g)
<1>1. l \in Nat /\ p \in Nat /\ p + l < Size /\ Addr = 0..Size - 1 /\ Size \in Nat /\ g \in Nat
  BY MemoryIs DEF TextAt
<1>2. PICK r \in Nat, k \in Addr : r = l - g /\ k = p + g /\ k + r = p + l
  BY <1>1
<1>3. ASSUME NEW h \in 0..r - 1 PROVE m[k + h] # 0
  <2>1. PICK j \in 0..l - 1 : j = g + h /\ p + j = k + h
    BY <1>1, <1>2
  <2> QED
    BY <2>1, Zenon DEF TextAt
<1>4. m[k + r] = 0 /\ k + r < Size
  BY <1>1, <1>2 DEF TextAt
<1>5. TextAt(m, k, r)
  BY <1>3, <1>4 DEF TextAt
<1> QED
  BY <1>2, <1>5, Zenon

(* strtok without primes: memory m, position p and words w before, n, o and v after. *)
Tokenised(m, p, w, n, o, v) ==
    LET token == p + Strspn(m, p, Delims)
        found == Strpbrk(m, token, Delims)
    IN  IF m[token] = 0 THEN o = token /\ n = m /\ v = w
        ELSE /\ o = IF found = {} THEN EndOf(m, token) ELSE Max(found) + 1
             /\ n = [a \in Addr |-> IF a \in found THEN 0 ELSE m[a]]
             /\ v = Append(w, Str(n, token))

(* No word is left behind p. *)
NoneLeft(m, p, l, w, n, o, v) ==
    /\ \A h \in 0..l - 1 : m[p + h] \in Delims
    /\ o = p + l /\ n = m /\ v = w

(* The next word: behind g delimiters, c characters long. *)
NextWord(m, p, l, w, n, o, v, g, c) ==
    /\ g \in Nat /\ c \in Nat \ {0} /\ g + c <= l
    /\ \A h \in 0..g - 1 : m[p + h] \in Delims
    /\ \A h \in g..g + c - 1 : m[p + h] \notin Delims
    /\ g + c < l => m[p + g + c] \in Delims
    /\ o = IF g + c = l THEN p + l ELSE p + g + c + 1
    /\ n \in Memory /\ \A a \in Addr : o <= a => n[a] = m[a]
    /\ v = Append(w, Cells(m, p + g, c))

(* strtok finds the next word or that there is none. *)
LEMMA StrtokIs ==
    ASSUME NEW m \in Memory, NEW p \in Addr, NEW l, TextAt(m, p, l),
           NEW w, NEW n, NEW o, NEW v, Tokenised(m, p, w, n, o, v)
    PROVE  NoneLeft(m, p, l, w, n, o, v) \/ \E g, c : NextWord(m, p, l, w, n, o, v, g, c)
<1>1. PICK g : SpanOf(m, p, l, g)
  BY SpanIs
<1>2. /\ l \in Nat /\ p \in Nat /\ p + l < Size /\ Addr = 0..Size - 1 /\ Size \in Nat /\ g \in 0..l /\ g \in Nat
      /\ Strspn(m, p, Delims) = g
  BY <1>1, MemoryIs DEF TextAt, SpanOf
<1>3. PICK t \in Addr, r \in Nat : t = p + g /\ r = l - g /\ t + r = p + l
  BY <1>2
<1>4. TextAt(m, t, r)
  BY <1>2, <1>3, RestIsText, Zenon
<1>5. PICK c : RunOf(m, t, r, c)
  BY <1>4, RunIs
<1>6. c \in Nat /\ c <= r /\ Strcspn(m, t, Delims) = c /\ Strlen(m, t) = r /\ EndOf(m, t) = t + r /\ m[t + r] = 0
  BY <1>3, <1>4, <1>5, TextEnds DEF RunOf, TextAt
<1>7. PICK found : found = Strpbrk(m, t, Delims)
  OBVIOUS
<1>8. found = {t + h : h \in {c} \ {r}}
  BY <1>6, <1>7, Zenon DEF Strpbrk
<1>9. CASE m[t] = 0
  <2>1. g = l
    <3>1. SUFFICES ASSUME g # l PROVE FALSE
      OBVIOUS
    <3>2. g \in 0..l - 1
      BY <1>2, <3>1
    <3>3. m[p + g] # 0
      BY <3>2, Zenon DEF TextAt
    <3> QED
      BY <1>3, <1>9, <3>3, Zenon
  <2>2. o = t /\ n = m /\ v = w
    BY <1>2, <1>3, <1>9, Zenon DEF Tokenised
  <2>3. \A h \in 0..l - 1 : m[p + h] \in Delims
    BY <1>1, <2>1 DEF SpanOf
  <2> QED
    BY <1>3, <2>1, <2>2, <2>3 DEF NoneLeft
<1>10. CASE m[t] # 0
  <2>1. /\ o = IF found = {} THEN t + r ELSE Max(found) + 1
        /\ n = [a \in Addr |-> IF a \in found THEN 0 ELSE m[a]]
        /\ v = Append(w, Str(n, t))
    BY <1>2, <1>3, <1>6, <1>7, <1>10, Zenon DEF Tokenised
  <2>2. c # 0
    <3>1. SUFFICES ASSUME c = 0 PROVE FALSE
      OBVIOUS
    <3>2. m[t] \in Delims
      BY <1>2, <1>3, <1>5, <1>10, <3>1 DEF RunOf
    <3> QED
      BY <1>1, <1>3, <3>2, Zenon DEF SpanOf
  <2>3. g + c <= l /\ g + c \in Nat /\ (g + c = l <=> c = r) /\ (g + c < l <=> c # r)
    BY <1>2, <1>3, <1>6
  <2>4. \A h \in g..g + c - 1 : m[p + h] \notin Delims
    <3> SUFFICES ASSUME NEW h \in g..g + c - 1 PROVE m[p + h] \notin Delims
      OBVIOUS
    <3>1. PICK j \in 0..c - 1 : j = h - g /\ t + j = p + h
      BY <1>2, <1>3, <1>6
    <3> QED
      BY <1>5, <3>1, Zenon DEF RunOf
  <2>5. \A h \in 0..g - 1 : m[p + h] \in Delims
    BY <1>1 DEF SpanOf
  <2>6. PICK z \in Addr : z = t + c /\ z = p + g + c
    BY <1>2, <1>3, <1>6
  <2>7. g + c < l => m[p + g + c] \in Delims
    <3>1. SUFFICES ASSUME c # r PROVE m[z] \in Delims
      BY <2>3, <2>6
    <3>2. c \in 0..r - 1
      BY <1>3, <1>6, <3>1
    <3>3. m[t + c] # 0
      BY <1>4, <3>2, Zenon DEF TextAt
    <3> QED
      BY <1>5, <2>6, <3>3 DEF RunOf
  <2>8. found = IF c = r THEN {} ELSE {z}
    BY <1>8, <2>6
  <2>9. o = IF g + c = l THEN p + l ELSE p + g + c + 1
    <3>1. CASE c = r
      BY <1>3, <2>1, <2>3, <2>8, <3>1
    <3>2. CASE c # r
      <4>1. Max(found) = z
        <5>1. \E x \in {z} : \A y \in {z} : x >= y
          BY <2>6, MemoryIs
        <5>2. Max({z}) \in {z}
          BY <5>1, Zenon DEF Max
        <5> QED
          BY <2>8, <3>2, <5>2
      <4> QED
        BY <2>1, <2>3, <2>6, <2>8, <3>2, <4>1
    <3> QED
      BY <3>1, <3>2
  <2>10. n \in Memory
    <3>1. \A a \in Addr : (IF a \in found THEN 0 ELSE m[a]) \in Value
      BY DEF Memory, Value
    <3> QED
      BY <2>1, <3>1, Zenon DEF Memory
  <2>11. \A a \in Addr : n[a] = IF a \in found THEN 0 ELSE m[a]
    BY <2>1, Zenon
  <2>12. \A a \in Addr : o <= a => n[a] = m[a]
    BY <1>2, <2>6, <2>8, <2>9, <2>3, <2>11
  <2>13. Str(n, t) = Cells(m, t, c)
    <3>1. n[z] = 0
      <4>1. CASE c = r
        BY <1>6, <2>6, <2>8, <2>11, <4>1
      <4>2. CASE c # r
        BY <2>6, <2>8, <2>11, <4>2
      <4> QED
        BY <4>1, <4>2
    <3>2. ASSUME NEW h \in 0..c - 1 PROVE n[t + h] = m[t + h] /\ m[t + h] # 0
      <4>1. PICK a \in Addr : a = t + h /\ a # z
        BY <1>2, <1>3, <1>6, <2>6, MemoryIs
      <4>2. h \in 0..r - 1
        BY <1>3, <1>6
      <4> QED
        BY <1>4, <2>8, <2>11, <4>1, <4>2 DEF TextAt
    <3>3. TextAt(n, t, c)
      <4>1. n[t + c] = 0
        BY <2>6, <3>1, Zenon
      <4>2. t + c < Size
        BY <1>2, <2>6
      <4>3. \A h \in 0..c - 1 : n[t + h] # 0
        BY <3>2, Zenon
      <4> QED
        BY <1>6, <4>1, <4>2, <4>3, Zenon DEF TextAt
    <3>4. Str(n, t) = [h \in 1..c |-> n[t + h - 1]]
      BY <2>10, <3>3, StrIs
    <3>5. ASSUME NEW j \in 1..c PROVE n[t + j - 1] = m[t + j - 1]
      <4>1. PICK h \in 0..c - 1 : h = j - 1 /\ t + j - 1 = t + h
        BY <1>3, <1>6, MemoryIs
      <4> QED
        BY <3>2, <4>1, Zenon
    <3> QED
      BY <3>4, <3>5, Zenon DEF Cells
  <2>14. v = Append(w, Cells(m, p + g, c))
    BY <1>3, <2>1, <2>13, Zenon
  <2>15. NextWord(m, p, l, w, n, o, v, g, c)
    BY <1>2, <1>6, <2>2, <2>3, <2>4, <2>5, <2>7, <2>9, <2>10, <2>12, <2>14, Zenon DEF NextWord
  <2> QED
    BY <2>15
<1> QED
  BY <1>9, <1>10

-----------------------------------------------------------------------------
(* The words of a text, one after the other *)

(* The beginnings of words among the first j characters. *)
StartsUpTo(text, delims, j) == {a \in Starts(text, delims) : a <= j}

(* A run of characters of a word, from a to b, that no such character follows. *)
WordRun(text, delims, a, b) ==
    /\ ~(b + 1 \in DOMAIN text /\ text[b + 1] \notin delims)
    /\ \A k \in a..b : k \in DOMAIN text /\ text[k] \notin delims

WordAt(text, delims, n) ==
    LET a == CHOOSE a \in Starts(text, delims) : Cardinality(StartsUpTo(text, delims, a)) = n
    IN  SubSeq(text, a, CHOOSE b \in a..Len(text) : WordRun(text, delims, a, b))

(* The words, with their parts named. *)
LEMMA WordsAre ==
    ASSUME NEW text, NEW delims
    PROVE  WordsOf(text, delims) = [n \in 1..Cardinality(Starts(text, delims)) |-> WordAt(text, delims, n)]
BY DEF WordsOf, WordAt, Starts, StartsUpTo, WordRun

(* Beginnings of words can be counted. *)
LEMMA StartsAreFinite ==
    ASSUME NEW S, NEW text \in Seq(S), NEW delims
    PROVE  /\ Starts(text, delims) \subseteq 1..Len(text)
           /\ IsFiniteSet(Starts(text, delims)) /\ Cardinality(Starts(text, delims)) \in Nat
<1>1. Len(text) \in Nat /\ DOMAIN text = 1..Len(text)
  BY LenProperties
<1>2. Starts(text, delims) \subseteq 1..Len(text)
  BY <1>1 DEF Starts
<1>3. IsFiniteSet(1..Len(text))
  BY <1>1, FS_Interval
<1>4. IsFiniteSet(Starts(text, delims))
  BY <1>2, <1>3, FS_Subset
<1> QED
  BY <1>2, <1>4, FS_CardinalityType

(* Some of them, too, and there are no more of those than of all. *)
LEMMA SomeStarts ==
    ASSUME NEW S, NEW text \in Seq(S), NEW delims, NEW j
    PROVE  /\ IsFiniteSet(StartsUpTo(text, delims, j))
           /\ Cardinality(StartsUpTo(text, delims, j)) \in Nat
           /\ Cardinality(StartsUpTo(text, delims, j)) <= Cardinality(Starts(text, delims))
<1>1. StartsUpTo(text, delims, j) \subseteq Starts(text, delims)
  BY DEF StartsUpTo
<1>2. IsFiniteSet(Starts(text, delims))
  BY StartsAreFinite
<1>3. IsFiniteSet(StartsUpTo(text, delims, j))
      /\ Cardinality(StartsUpTo(text, delims, j)) <= Cardinality(Starts(text, delims))
  BY <1>1, <1>2, FS_Subset
<1> QED
  BY <1>3, FS_CardinalityType

(* A later beginning has more beginnings up to it. *)
LEMMA StartsGrow ==
    ASSUME NEW S, NEW text \in Seq(S), NEW delims,
           NEW a \in Starts(text, delims), NEW b \in Starts(text, delims), a < b
    PROVE  Cardinality(StartsUpTo(text, delims, a)) # Cardinality(StartsUpTo(text, delims, b))
<1>1. a \in Nat /\ b \in Nat
  <2>1. Starts(text, delims) \subseteq 1..Len(text)
    BY StartsAreFinite
  <2>2. Len(text) \in Nat
    BY LenProperties
  <2> QED
    BY <2>1, <2>2
<1>2. PICK A, B : A = StartsUpTo(text, delims, a) /\ B = StartsUpTo(text, delims, b)
  OBVIOUS
<1>3. A \subseteq B
  <2>1. Starts(text, delims) \subseteq 1..Len(text)
    BY StartsAreFinite
  <2> QED
    BY <1>1, <1>2, <2>1 DEF StartsUpTo
<1>4. b \in B /\ b \notin A
  BY <1>1, <1>2 DEF StartsUpTo
<1>5. IsFiniteSet(B)
  BY <1>2, SomeStarts
<1>6. Cardinality(B) = Cardinality(A) => B = A
  BY <1>3, <1>5, FS_Subset
<1> QED
  BY <1>2, <1>4, <1>6

(* A beginning with n beginnings up to it begins the n-th word, which ends where its
   run of characters does. *)
LEMMA WordIs ==
    ASSUME NEW S, NEW text \in Seq(S), NEW delims, NEW a \in Starts(text, delims),
           NEW n, n = Cardinality(StartsUpTo(text, delims, a)),
           NEW e \in a..Len(text), WordRun(text, delims, a, e)
    PROVE  n \in 1..Cardinality(Starts(text, delims)) /\ WordsOf(text, delims)[n] = SubSeq(text, a, e)
<1>1. Len(text) \in Nat /\ DOMAIN text = 1..Len(text) /\ Starts(text, delims) \subseteq 1..Len(text)
  BY LenProperties, StartsAreFinite
<1>2. a \in 1..Len(text)
  BY <1>1
<1>3. n \in Nat /\ n <= Cardinality(Starts(text, delims)) /\ Cardinality(Starts(text, delims)) \in Nat
  BY SomeStarts, StartsAreFinite
<1>4. n # 0
  <2>1. a \in StartsUpTo(text, delims, a)
    BY <1>2 DEF StartsUpTo
  <2>2. IsFiniteSet(StartsUpTo(text, delims, a))
    BY SomeStarts
  <2> QED
    BY <2>1, <2>2, FS_EmptySet
<1>5. n \in 1..Cardinality(Starts(text, delims))
  BY <1>3, <1>4
<1>6. PICK x : x = CHOOSE y \in Starts(text, delims) : Cardinality(StartsUpTo(text, delims, y)) = n
  OBVIOUS
<1>7. x \in Starts(text, delims) /\ Cardinality(StartsUpTo(text, delims, x)) = n
  BY <1>6, Zenon
<1>8. x = a
  <2>1. x \in Nat /\ a \in Nat
    BY <1>1, <1>7
  <2>2. ~(x < a)
    BY <1>7, StartsGrow
  <2>3. ~(a < x)
    BY <1>7, StartsGrow
  <2> QED
    BY <2>1, <2>2, <2>3
<1>9. PICK b : b = CHOOSE y \in a..Len(text) : WordRun(text, delims, a, y)
  OBVIOUS
<1>10. b \in a..Len(text) /\ WordRun(text, delims, a, b)
  BY <1>9, Zenon
<1>11. b = e
  <2>1. b \in Nat /\ e \in Nat /\ a <= b /\ a <= e /\ b <= Len(text) /\ e <= Len(text)
    BY <1>2, <1>10
  <2>2. ~(b < e)
    <3>1. SUFFICES ASSUME b < e PROVE FALSE
      OBVIOUS
    <3>2. b + 1 \in a..e
      BY <1>2, <2>1, <3>1
    <3> QED
      BY <1>10, <3>2 DEF WordRun
  <2>3. ~(e < b)
    <3>1. SUFFICES ASSUME e < b PROVE FALSE
      OBVIOUS
    <3>2. e + 1 \in a..b
      BY <1>2, <2>1, <3>1
    <3> QED
      BY <1>10, <3>2 DEF WordRun
  <2> QED
    BY <2>1, <2>2, <2>3
<1>12. WordAt(text, delims, n) = SubSeq(text, a, e)
  BY <1>6, <1>8, <1>9, <1>11, Zenon DEF WordAt
<1>13. WordsOf(text, delims)[n] = WordAt(text, delims, n)
  BY <1>5, WordsAre, Zenon
<1> QED
  BY <1>5, <1>12, <1>13

(* No word begins among delimiters. *)
LEMMA NoStarts ==
    ASSUME NEW S, NEW text \in Seq(S), NEW delims, NEW j \in Nat, NEW k \in Nat, j <= k,
           \A b \in j + 1..k : b \in DOMAIN text => text[b] \in delims
    PROVE  StartsUpTo(text, delims, k) = StartsUpTo(text, delims, j)
<1>1. Starts(text, delims) \subseteq Nat
  <2>1. Starts(text, delims) \subseteq 1..Len(text) /\ Len(text) \in Nat
    BY StartsAreFinite, LenProperties
  <2> QED
    BY <2>1
<1>2. ASSUME NEW b \in Starts(text, delims), b <= k PROVE b <= j
  <2>1. b \in DOMAIN text /\ text[b] \notin delims
    BY DEF Starts
  <2>2. b \notin j + 1..k
    BY <2>1
  <2> QED
    BY <1>1, <1>2, <2>2
<1>3. \A b \in Starts(text, delims) : b <= k <=> b <= j
  BY <1>1, <1>2
<1> QED
  BY <1>3 DEF StartsUpTo

OnlyDelims(text, delims, a, b) == \A k \in a..b : text[k] \in delims

(* Behind the first j characters, up to the k-th, one word begins, with the a-th. *)
StartsBehind(text, delims, j, a, k) ==
    /\ a \in Starts(text, delims)
    /\ StartsUpTo(text, delims, a) = StartsUpTo(text, delims, j) \cup {a}
    /\ StartsUpTo(text, delims, k) = StartsUpTo(text, delims, j) \cup {a}

(* One word begins among delimiters, the characters of a word and a delimiter. *)
LEMMA OneStarts ==
    ASSUME NEW S, NEW text \in Seq(S), NEW delims, NEW j \in Nat, NEW a \in Nat, NEW e \in Nat, NEW k \in Nat,
           j < a, a <= e, e <= Len(text), k \in {e, e + 1}, j = 0 \/ text[j] \in delims,
           OnlyDelims(text, delims, j + 1, a - 1), WordRun(text, delims, a, e)
    PROVE  StartsBehind(text, delims, j, a, k)
<1>1. Len(text) \in Nat /\ DOMAIN text = 1..Len(text) /\ Starts(text, delims) \subseteq 1..Len(text)
  BY LenProperties, StartsAreFinite
<1>2. \A b \in a..e : b \in DOMAIN text /\ text[b] \notin delims
  BY DEF WordRun
<1>3. a \in DOMAIN text /\ text[a] \notin delims
  BY <1>2
<1>4. ~(a - 1 \in DOMAIN text /\ text[a - 1] \notin delims)
  <2>1. CASE a - 1 = j
    BY <1>1, <2>1
  <2>2. CASE a - 1 # j
    <3>1. a - 1 \in j + 1..a - 1
      BY <2>2
    <3> QED
      BY <3>1 DEF OnlyDelims
  <2> QED
    BY <2>1, <2>2
<1>5. a \in Starts(text, delims)
  BY <1>3, <1>4 DEF Starts
<1>6. ASSUME NEW b \in Starts(text, delims), b <= e + 1 PROVE b <= j \/ b = a
  <2>1. b \in DOMAIN text /\ text[b] \notin delims /\ ~(b - 1 \in DOMAIN text /\ text[b - 1] \notin delims)
    BY DEF Starts
  <2>2. b \notin j + 1..a - 1
    BY <2>1 DEF OnlyDelims
  <2>3. b - 1 \notin a..e
    BY <1>2, <2>1
  <2> QED
    BY <1>1, <1>6, <2>2, <2>3
<1>7. ASSUME NEW z \in Nat, a <= z, z <= e + 1
      PROVE  StartsUpTo(text, delims, z) = StartsUpTo(text, delims, j) \cup {a}
  <2>1. \A b \in Starts(text, delims) : b <= z <=> b <= j \/ b = a
    BY <1>1, <1>6, <1>7
  <2> QED
    BY <1>5, <2>1 DEF StartsUpTo
<1> QED
  BY <1>5, <1>7 DEF StartsBehind

(* So there is one more beginning up to there. *)
LEMMA OneMore ==
    ASSUME NEW S, NEW text \in Seq(S), NEW delims, NEW j \in Nat, NEW a \in Nat, j < a
    PROVE  Cardinality(StartsUpTo(text, delims, j) \cup {a}) = Cardinality(StartsUpTo(text, delims, j)) + 1
<1>1. a \notin StartsUpTo(text, delims, j)
  BY DEF StartsUpTo
<1>2. IsFiniteSet(StartsUpTo(text, delims, j))
  BY SomeStarts
<1> QED
  BY <1>1, <1>2, FS_AddElement

(* How far a text of l characters at s is split: from memory m, which has become b, the
   words among its first j characters have been handed out. *)
Parsed(m, b, s, l, j, w) ==
    /\ TextAt(m, s, l) /\ j \in 0..l
    /\ \A a \in Addr : s + j <= a => b[a] = m[a]
    /\ j \in {0, l} \/ Str(m, s)[j] \in Delims
    /\ w \in Seq(Seq(Value))
    /\ Len(w) = Cardinality(StartsUpTo(Str(m, s), Delims, j))
    /\ \A h \in 1..Len(w) : w[h] = WordsOf(Str(m, s), Delims)[h]

AllParsed(m, s, w) == Len(w) = Cardinality(Starts(Str(m, s), Delims))

(* From p on, r cells of memory b hold what the text has behind its first j characters. *)
Left(text, b, j, p, r) == \A h \in 0..r - 1 : b[p + h] = text[j + h + 1]

(* What lies behind is a string that has not changed. *)
LEMMA RestIsLeft ==
    ASSUME NEW m \in Memory, NEW b \in Memory, NEW s \in Addr, NEW l, NEW j, NEW w, Parsed(m, b, s, l, j, w),
           NEW p \in Addr, p = s + j, NEW r \in Nat, r = l - j
    PROVE  TextAt(b, p, r) /\ Left(Str(m, s), b, j, p, r)
<1>1. /\ l \in Nat /\ s \in Nat /\ s + l < Size /\ Addr = 0..Size - 1 /\ Size \in Nat /\ j \in 0..l /\ j \in Nat
      /\ TextAt(m, s, l)
  BY MemoryIs DEF Parsed, TextAt
<1>2. p + r < Size
  BY <1>1
<1>3. TextAt(m, p, r)
  BY <1>1, <1>2, RestIsText, Zenon
<1>4. ASSUME NEW h \in 0..r PROVE p + h \in Addr /\ b[p + h] = m[p + h]
  <2>1. PICK a \in Addr : a = p + h /\ s + j <= a
    BY <1>1, <1>2
  <2> QED
    BY <2>1, Zenon DEF Parsed
<1>5. TextAt(b, p, r)
  <2>1. b[p + r] = 0
    BY <1>2, <1>3, <1>4 DEF TextAt
  <2>2. \A h \in 0..r - 1 : b[p + h] # 0
    BY <1>2, <1>3, <1>4 DEF TextAt
  <2> QED
    BY <1>2, <2>1, <2>2 DEF TextAt
<1>6. ASSUME NEW h \in 0..r - 1 PROVE b[p + h] = Str(m, s)[j + h + 1]
  <2>1. PICK k \in 1..l : k = j + h + 1 /\ s + k - 1 = p + h
    BY <1>1, <1>2
  <2>2. Str(m, s) = [x \in 1..l |-> m[s + x - 1]]
    BY <1>1, StrIs
  <2>3. Str(m, s)[k] = m[p + h]
    BY <2>1, <2>2, Zenon
  <2>4. b[p + h] = m[p + h]
    BY <1>2, <1>4
  <2> QED
    BY <2>1, <2>3, <2>4, Zenon
<1> QED
  BY <1>5, <1>6, Zenon DEF Left

GoesOn(m, n, s, l, o, w, v) ==
    \E k \in Nat : /\ o = s + k /\ o \in Addr /\ n \in Memory
                   /\ Parsed(m, n, s, l, k, v)
                   /\ v = w => AllParsed(m, s, v)

(* strtok goes on to the next word, or to the end when there is none. *)
LEMMA ParsedOn ==
    ASSUME NEW m \in Memory, NEW b \in Memory, NEW s \in Addr, NEW l, NEW j, NEW w, Parsed(m, b, s, l, j, w),
           NEW n, NEW o, NEW v, Tokenised(b, s + j, w, n, o, v)
    PROVE  GoesOn(m, n, s, l, o, w, v)
<1>1. /\ l \in Nat /\ s \in Nat /\ s + l < Size /\ Addr = 0..Size - 1 /\ Size \in Nat /\ j \in 0..l /\ j \in Nat
      /\ TextAt(m, s, l) /\ w \in Seq(Seq(Value))
  BY MemoryIs DEF Parsed, TextAt
<1>2. PICK p \in Addr, r \in Nat : p = s + j /\ r = l - j /\ p + r = s + l
  BY <1>1
<1>3. TextAt(b, p, r) /\ Left(Str(m, s), b, j, p, r)
  BY <1>2, RestIsLeft
<1>4. PICK text : text = Str(m, s)
  OBVIOUS
<1>5. text \in Seq(Value) /\ Len(text) = l /\ DOMAIN text = 1..l
  <2>1. text \in Seq(Value) /\ Len(text) = l
    BY <1>1, <1>4, StrIs
  <2> QED
    BY <2>1, LenProperties
<1>6. \A h \in 0..r - 1 : b[p + h] = text[j + h + 1]
  BY <1>3, <1>4, Zenon DEF Left
<1>7. Tokenised(b, p, w, n, o, v)
  BY <1>2, Zenon
<1>8. StartsUpTo(text, Delims, l) = Starts(text, Delims)
  <2>1. Starts(text, Delims) \subseteq 1..l
    BY <1>5, StartsAreFinite
  <2> QED
    BY <1>1, <2>1 DEF StartsUpTo
<1>9. CASE NoneLeft(b, p, r, w, n, o, v)
  <2>1. o = s + l /\ n = b /\ v = w /\ \A h \in 0..r - 1 : b[p + h] \in Delims
    BY <1>2, <1>9 DEF NoneLeft
  <2>2. ASSUME NEW x \in j + 1..l PROVE text[x] \in Delims
    <3>1. PICK h \in 0..r - 1 : h = x - j - 1 /\ j + h + 1 = x
      BY <1>1, <1>2
    <3> QED
      BY <1>6, <2>1, <3>1, Zenon
  <2>3. StartsUpTo(text, Delims, l) = StartsUpTo(text, Delims, j)
    BY <1>1, <1>5, <2>2, NoStarts
  <2>4. Parsed(m, n, s, l, l, v)
    <3>1. \A a \in Addr : s + l <= a => n[a] = m[a]
      BY <1>1, <2>1 DEF Parsed
    <3>2. Len(v) = Cardinality(StartsUpTo(text, Delims, l))
      BY <1>4, <2>1, <2>3, Zenon DEF Parsed
    <3>3. \A h \in 1..Len(v) : v[h] = WordsOf(text, Delims)[h]
      BY <1>4, <2>1, Zenon DEF Parsed
    <3>4. l \in 0..l
      BY <1>1
    <3> QED
      BY <1>1, <1>4, <2>1, <3>1, <3>2, <3>3, <3>4, Zenon DEF Parsed
  <2>5. AllParsed(m, s, v)
    BY <1>4, <1>8, <2>4, Zenon DEF Parsed, AllParsed
  <2>6. s + l \in Addr
    BY <1>1
  <2> QED
    BY <1>1, <2>1, <2>4, <2>5, <2>6, Zenon DEF GoesOn
<1>10. ASSUME NEW g, NEW c, NextWord(b, p, r, w, n, o, v, g, c)
       PROVE  GoesOn(m, n, s, l, o, w, v)
  <2>1. /\ g \in Nat /\ c \in Nat \ {0} /\ g + c <= r
        /\ \A h \in 0..g - 1 : b[p + h] \in Delims
        /\ \A h \in g..g + c - 1 : b[p + h] \notin Delims
        /\ g + c < r => b[p + g + c] \in Delims
        /\ o = IF g + c = r THEN p + r ELSE p + g + c + 1
        /\ n \in Memory /\ \A a \in Addr : o <= a => n[a] = b[a]
        /\ v = Append(w, Cells(b, p + g, c))
    BY <1>10, Zenon DEF NextWord
  <2>2. PICK a \in Nat, e \in Nat, k \in Nat :
             a = j + g + 1 /\ e = j + g + c /\ k = IF e = l THEN l ELSE e + 1
    BY <1>1, <2>1
  <2>3. /\ j < a /\ a <= e /\ e <= l /\ k <= l /\ k \in {e, e + 1} /\ j <= k /\ o = s + k /\ o \in Addr
        /\ e \in a..Len(text) /\ k \in 0..l
    BY <1>1, <1>2, <1>5, <2>1, <2>2
  <2>4. ASSUME NEW x \in j + 1..a - 1 PROVE text[x] \in Delims
    <3>1. PICK h \in 0..g - 1 : h = x - j - 1 /\ j + h + 1 = x /\ h \in 0..r - 1
      BY <1>1, <1>2, <2>1, <2>2
    <3> QED
      BY <1>6, <2>1, <3>1, Zenon
  <2>5. ASSUME NEW x \in a..e PROVE x \in DOMAIN text /\ text[x] \notin Delims
    <3>1. PICK h \in g..g + c - 1 : h = x - j - 1 /\ j + h + 1 = x /\ h \in 0..r - 1
      BY <1>1, <1>2, <2>1, <2>2
    <3>2. text[x] \notin Delims
      BY <1>6, <2>1, <3>1, Zenon
    <3> QED
      BY <1>1, <1>5, <2>2, <2>3, <3>2
  <2>6. e # l => text[e + 1] \in Delims
    <3>1. SUFFICES ASSUME e # l PROVE text[e + 1] \in Delims
      OBVIOUS
    <3>2. PICK h \in 0..r - 1 : h = g + c /\ j + h + 1 = e + 1 /\ p + h = p + g + c
      BY <1>1, <1>2, <2>1, <2>2, <2>3, <3>1, MemoryIs
    <3>3. b[p + g + c] \in Delims
      BY <2>1, <2>2, <1>1, <1>2, <3>1
    <3> QED
      BY <1>6, <3>2, <3>3, Zenon
  <2>7. WordRun(text, Delims, a, e)
    <3>1. ~(e + 1 \in DOMAIN text /\ text[e + 1] \notin Delims)
      BY <1>1, <1>5, <2>2, <2>6
    <3> QED
      BY <2>5, <3>1 DEF WordRun
  <2>8. j = 0 \/ text[j] \in Delims
    BY <1>1, <1>2, <1>4, <2>1 DEF Parsed
  <2>9. /\ a \in Starts(text, Delims)
        /\ StartsUpTo(text, Delims, a) = StartsUpTo(text, Delims, j) \cup {a}
        /\ StartsUpTo(text, Delims, k) = StartsUpTo(text, Delims, j) \cup {a}
    <3>1. e <= Len(text)
      BY <1>5, <2>3
    <3>2. OnlyDelims(text, Delims, j + 1, a - 1)
      BY <2>4, Zenon DEF OnlyDelims
    <3>3. StartsBehind(text, Delims, j, a, k)
      BY <1>1, <1>5, <2>3, <2>7, <2>8, <3>1, <3>2, OneStarts
    <3> QED
      BY <3>3, Zenon DEF StartsBehind
  <2>10. PICK N \in Nat : N = Cardinality(StartsUpTo(text, Delims, j)) /\ Len(w) = N
    <3>1. Cardinality(StartsUpTo(text, Delims, j)) \in Nat
      BY <1>5, SomeStarts
    <3> QED
      BY <1>4, <3>1, Zenon DEF Parsed
  <2>11. /\ Cardinality(StartsUpTo(text, Delims, a)) = N + 1
         /\ Cardinality(StartsUpTo(text, Delims, k)) = N + 1
    <3>1. Cardinality(StartsUpTo(text, Delims, j) \cup {a}) = N + 1
      BY <1>1, <1>5, <2>2, <2>3, <2>10, OneMore
    <3> QED
      BY <2>9, <3>1, Zenon
  <2>12. WordsOf(text, Delims)[N + 1] = SubSeq(text, a, e)
    BY <1>5, <2>3, <2>7, <2>9, <2>11, WordIs, Zenon
  <2>13. PICK word : word = Cells(b, p + g, c)
    OBVIOUS
  <2>14. word = SubSeq(text, a, e) /\ word \in Seq(Value)
    <3>1. word = [x \in 1..c |-> b[p + g + x - 1]]
      BY <2>13, Zenon DEF Cells
    <3>2. /\ SubSeq(text, a, e) \in Seq(Value) /\ Len(SubSeq(text, a, e)) = e - a + 1
          /\ \A x \in 1..e - a + 1 : SubSeq(text, a, e)[x] = text[a + x - 1]
      <4>1. a \in 1..Len(text) + 1 /\ e \in a - 1..Len(text)
        BY <1>1, <1>5, <2>2, <2>3
      <4>2. a <= e /\ \A x \in a..e : x \in 1..Len(text)
        BY <1>1, <1>5, <2>2, <2>3
      <4> QED
        BY <1>5, <2>2, <4>1, <4>2, SubSeqProperties
    <3>3. e - a + 1 = c
      BY <1>1, <2>1, <2>2
    <3>4. ASSUME NEW x \in 1..c PROVE b[p + g + x - 1] = text[a + x - 1]
      <4>1. PICK h \in 0..r - 1 : h = g + x - 1 /\ p + g + x - 1 = p + h /\ j + h + 1 = a + x - 1
        BY <1>1, <1>2, <2>1, <2>2, MemoryIs
      <4> QED
        BY <1>6, <4>1, Zenon
    <3>5. PICK u : u = SubSeq(text, a, e)
      OBVIOUS
    <3>6. u = [x \in 1..c |-> u[x]]
      BY <3>2, <3>3, <3>5, LenProperties
    <3>7. \A x \in 1..c : u[x] = b[p + g + x - 1]
      BY <3>2, <3>3, <3>4, <3>5, Zenon
    <3>8. u = [x \in 1..c |-> b[p + g + x - 1]]
      BY <3>6, <3>7, Zenon
    <3> QED
      BY <3>1, <3>2, <3>5, <3>8, Zenon
  <2>15. /\ v \in Seq(Seq(Value)) /\ Len(v) = N + 1 /\ v[N + 1] = word
         /\ \A h \in 1..N : v[h] = w[h]
    BY <1>1, <2>1, <2>10, <2>13, <2>14, AppendProperties
  <2>16. \A h \in 1..Len(v) : v[h] = WordsOf(text, Delims)[h]
    <3> SUFFICES ASSUME NEW h \in 1..Len(v) PROVE v[h] = WordsOf(text, Delims)[h]
      OBVIOUS
    <3>1. CASE h = N + 1
      BY <2>12, <2>14, <2>15, <3>1, Zenon
    <3>2. CASE h # N + 1
      <4>1. h \in 1..N
        BY <2>10, <2>15, <3>2
      <4>2. h \in 1..Len(w)
        BY <2>10, <4>1, Zenon
      <4>3. w[h] = WordsOf(text, Delims)[h]
        BY <1>4, <4>2, Zenon DEF Parsed
      <4> QED
        BY <2>15, <4>1, <4>3, Zenon
    <3> QED
      BY <3>1, <3>2
  <2>17. Parsed(m, n, s, l, k, v)
    <3>1. \A x \in Addr : s + k <= x => n[x] = m[x]
      <4> SUFFICES ASSUME NEW x \in Addr, s + k <= x PROVE n[x] = m[x]
        OBVIOUS
      <4>1. s + j <= x /\ o <= x
        <5>1. j <= k /\ o = s + k
          BY <2>3
        <5>2. x \in Nat /\ s \in Nat /\ j \in Nat
          BY <1>1, MemoryIs
        <5> QED
          BY <5>1, <5>2
      <4>2. b[x] = m[x]
        BY <4>1 DEF Parsed
      <4> QED
        BY <2>1, <4>1, <4>2
    <3>2. k \in {0, l} \/ text[k] \in Delims
      BY <2>2, <2>6
    <3>3. Len(v) = Cardinality(StartsUpTo(text, Delims, k))
      BY <2>11, <2>15, Zenon
    <3> QED
      BY <1>1, <1>4, <2>3, <2>15, <2>16, <3>1, <3>2, <3>3, Zenon DEF Parsed
  <2>18. v # w
    BY <2>10, <2>15
  <2> QED
    BY <2>1, <2>3, <2>17, <2>18, Zenon DEF GoesOn
<1> QED
  BY <1>3, <1>7, <1>9, <1>10, StrtokIs, Zenon

(* What has been handed out are the words in order, and all of them at the end. *)
LEMMA HandedOut ==
    ASSUME NEW m \in Memory, NEW b, NEW s \in Addr, NEW l, NEW j, NEW w, Parsed(m, b, s, l, j, w)
    PROVE  /\ IsPrefix(w, WordsOf(Str(m, s), Delims))
           /\ AllParsed(m, s, w) => w = WordsOf(Str(m, s), Delims)
<1>1. PICK text : text = Str(m, s)
  OBVIOUS
<1>2. text \in Seq(Value)
  BY <1>1, StrIs DEF Parsed
<1>3. PICK N \in Nat : N = Cardinality(Starts(text, Delims))
  BY <1>2, StartsAreFinite
<1>4. PICK v : v = WordsOf(text, Delims)
  OBVIOUS
<1>5. v = [h \in 1..N |-> v[h]]
  BY <1>3, <1>4, WordsAreCounted
<1>6. w \in Seq(Seq(Value)) /\ Len(w) \in Nat /\ w = [h \in 1..Len(w) |-> w[h]]
  BY LenProperties DEF Parsed
<1>7. Len(w) <= N
  <2>1. Cardinality(StartsUpTo(text, Delims, j)) <= N
    BY <1>2, <1>3, SomeStarts
  <2> QED
    BY <1>1, <2>1, Zenon DEF Parsed
<1>8. \A h \in 1..Len(w) : w[h] = v[h]
  BY <1>1, <1>4, Zenon DEF Parsed
<1>9. IsPrefix(w, v)
  <2>1. PICK K : K = {v[h] : h \in 1..N}
    OBVIOUS
  <2>2. PICK k \in Nat : k = Len(w)
    BY <1>6
  <2>3. v \in [1..N -> K]
    BY <1>5, <2>1
  <2>4. v \in Seq(K) /\ Len(v) = N
    BY <2>3, TextCounted
  <2>5. \A h \in 1..k : w[h] \in K
    BY <1>3, <1>7, <1>8, <2>1, <2>2
  <2>6. w \in [1..k -> K]
    BY <1>6, <2>2, <2>5, Zenon
  <2>7. w \in Seq(K)
    BY <2>6, TextCounted
  <2>8. Len(w) <= Len(v)
    BY <1>7, <2>4
  <2> QED
    BY <1>8, <2>4, <2>7, <2>8, PrefixIs
<1>10. ASSUME AllParsed(m, s, w) PROVE w = v
  <2>1. Len(w) = N
    BY <1>1, <1>3, <1>10, Zenon DEF AllParsed
  <2> QED
    BY <1>5, <1>6, <1>8, <2>1, Zenon
<1> QED
  BY <1>1, <1>4, <1>9, <1>10, Zenon

(* Before the first call the last cell ends whatever string begins in memory. *)
Fresh == call = NoCall => words = <<>> /\ mem[Size - 1] = 0

SplitOf(op, m, b, s, o, w) ==
    \E l, j \in 0..Size : /\ o = s + j
                          /\ Parsed(m, b, s, l, j, w)
                          /\ op = "done" => AllParsed(m, s, w)

(* While a text is split, and after that. *)
Splitting == call.op \in {"split", "done"} => SplitOf(call.op, before, mem, call.s, olds, words)

StringsInv == StringsTypeOK /\ Fresh /\ CopyArrives /\ Splitting

(* CopyArrives, as a relation of the memory before and after. *)
LEMMA ArrivesIs == CopyArrives <=> Arrives(before, mem, call.op, call.d, call.s, call.n)
BY Zenon DEF CopyArrives, Arrives

(* A call that copies, as it does, keeps the invariant. *)
LEMMA CallKeeps ==
    ASSUME StringsInv, NEW op \in {"move", "copy", "ncopy", "ndup", "cat"},
           NEW d \in Addr, NEW s \in Addr, NEW n \in 0..Size,
           Called(op, d, s, n), mem' \in Memory, Arrives(mem, mem', op, d, s, n)
    PROVE  StringsInv'
<1>1. /\ call' = [op |-> op, d |-> d, s |-> s, n |-> n] /\ before' = mem /\ olds' = olds
      /\ mem \in Memory /\ olds \in Addr
  BY DEF Called, StringsInv, StringsTypeOK
<1>2. call'.op = op /\ call'.d = d /\ call'.s = s /\ call'.n = n /\ op \notin {"none", "split", "done"}
  BY <1>1
<1>3. StringsTypeOK'
  BY <1>1 DEF StringsTypeOK
<1>4. Fresh'
  BY <1>1, <1>2 DEF Fresh, NoCall
<1>5. CopyArrives'
  <2>1. Arrives(before', mem', call'.op, call'.d, call'.s, call'.n)
    BY <1>1, <1>2, Zenon
  <2> QED
    BY <2>1, Zenon DEF CopyArrives, Arrives
<1>6. Splitting'
  BY <1>2 DEF Splitting
<1> QED
  BY <1>3, <1>4, <1>5, <1>6 DEF StringsInv

(* memcpy and memmove. *)
LEMMA MoveKeeps ==
    ASSUME StringsInv, Move
    PROVE  StringsInv'
<1>1. PICK d \in Addr, s \in Addr, n \in 0..Size :
          /\ Block(d, n) \cup Block(s, n) \subseteq Addr
          /\ Called("move", d, s, n)
          /\ \/ mem' = Memmove(mem, d, s, n)
             \/ Block(d, n) \cap Block(s, n) = {} /\ mem' = CopyUp(mem, d, s, n)
  BY DEF Move
<1>2. PICK m \in Memory, b \in {mem'} : m = mem /\ b = mem'
  BY DEF StringsInv, StringsTypeOK
<1>3. d \in Nat /\ s \in Nat /\ n \in Nat /\ Size \in Nat /\ Addr = 0..Size - 1
  BY MemoryIs
<1>4. Blocks(d, s, n)
  <2>1. CASE n = 0
    BY <1>3, <2>1 DEF Blocks
  <2>2. CASE n # 0
    <3>1. d + n - 1 \in Block(d, n) /\ s + n - 1 \in Block(s, n)
      BY <1>3, <2>2 DEF Block
    <3>2. d + n - 1 \in Addr /\ s + n - 1 \in Addr
      BY <1>1, <3>1
    <3> QED
      BY <1>3, <3>2 DEF Blocks
  <2> QED
    BY <2>1, <2>2
<1>5. b = Brought(m, d, s, Block(d, n))
  <2>1. CASE mem' = Memmove(mem, d, s, n)
    BY <1>2, <1>4, <2>1, MemmoveIs
  <2>2. CASE Block(d, n) \cap Block(s, n) = {} /\ mem' = CopyUp(mem, d, s, n)
    <3>1. d <= s \/ s + n <= d
      <4>1. SUFFICES ASSUME s < d, d < s + n PROVE FALSE
        BY <1>3
      <4>2. d \in Block(d, n) /\ d \in Block(s, n)
        BY <1>3, <4>1 DEF Block
      <4> QED
        BY <2>2, <4>2
    <3>2. CopyUp(m, d, s, n) = Brought(m, d, s, Block(d, n))
      BY <1>4, <3>1, CopyUpIs
    <3> QED
      BY <1>2, <2>2, <3>2
  <2> QED
    BY <1>1, <2>1, <2>2
<1>6. b \in Memory /\ Arrives(m, b, "move", d, s, n)
  BY <1>4, <1>5, MoveArrives
<1>7. mem' \in Memory /\ Arrives(mem, mem', "move", d, s, n)
  BY <1>2, <1>6, Zenon
<1> QED
  BY <1>1, <1>7, CallKeeps

(* strcpy, strdup, strncpy, strndup and strcat. *)
LEMMA CopyStringKeeps ==
    ASSUME StringsInv, CopyString
    PROVE  StringsInv'
<1>1. PICK d \in Addr, s \in Addr, n \in 0..Size :
         /\ IsString(mem, s) /\ IsString(mem, d)
         /\ LET len == Strlen(mem, s)
                apart(room) == /\ Block(d, room) \subseteq Addr
                               /\ Block(d, room) \cap Block(s, len + 1) = {}
            IN  \/ n = len + 1 /\ apart(n) /\ Called("copy", d, s, n) /\ mem' = Strcpy(mem, d, s)
                \/ apart(n) /\ Called("ncopy", d, s, n) /\ mem' = Strncpy(mem, d, s, n)
                \/ /\ apart(Min({n, len}) + 1)
                   /\ Called("ndup", d, s, n) /\ mem' = Strndup(mem, d, s, n)
                \/ /\ n = len + 1 /\ apart(Strlen(mem, d) + n)
                   /\ Called("cat", d, s, n) /\ mem' = Strcat(mem, d, s)
  BY Zenon DEF CopyString
<1>2. PICK m \in Memory, b \in {mem'} : m = mem /\ b = mem'
  BY DEF StringsInv, StringsTypeOK
<1>3. PICK l, k : l = Strlen(m, s) /\ k = Strlen(m, d)
  OBVIOUS
<1>4. TextAt(m, s, l) /\ TextAt(m, d, k)
  <2>1. EndOf(m, s) < Size /\ EndOf(m, d) < Size
    BY <1>1, <1>2, Zenon DEF IsString
  <2> QED
    BY <1>3, <2>1, TextIs
<1>5. l \in Nat /\ k \in Nat /\ n \in Nat
  BY <1>4, MemoryIs DEF TextAt
<1>6. /\ Block(d, 0) = {} /\ Block(s, l + 1) = Block(s, Strlen(mem, s) + 1)
  BY <1>2, <1>3, MemoryIs DEF Block
<1>7. CASE /\ n = l + 1 /\ Block(d, n) \subseteq Addr /\ Block(d, n) \cap Block(s, l + 1) = {}
           /\ Called("copy", d, s, n) /\ mem' = Strcpy(mem, d, s)
  <2>1. Copying(m, d, s, l, n)
    BY <1>4, <1>5, <1>7 DEF Copying, Apart
  <2>2. b = Strcpy(m, d, s)
    BY <1>2, <1>7
  <2>3. b \in Memory /\ Arrives(m, b, "copy", d, s, n)
    BY <1>7, <2>1, <2>2, StrcpyArrives
  <2>4. mem' \in Memory /\ Arrives(mem, mem', "copy", d, s, n)
    BY <1>2, <2>3, Zenon
  <2> QED
    BY <1>7, <2>4, CallKeeps
<1>8. CASE /\ Block(d, n) \subseteq Addr /\ Block(d, n) \cap Block(s, l + 1) = {}
           /\ Called("ncopy", d, s, n) /\ mem' = Strncpy(mem, d, s, n)
  <2>1. Copying(m, d, s, l, n)
    BY <1>4, <1>5, <1>8 DEF Copying, Apart
  <2>2. b = Strncpy(m, d, s, n)
    BY <1>2, <1>8
  <2>3. b \in Memory /\ Arrives(m, b, "ncopy", d, s, n)
    BY <1>4, <1>5, <2>1, <2>2, StrncpyArrives
  <2>4. mem' \in Memory /\ Arrives(mem, mem', "ncopy", d, s, n)
    BY <1>2, <2>3, Zenon
  <2> QED
    BY <1>8, <2>4, CallKeeps
<1>9. CASE /\ Block(d, Min({n, l}) + 1) \subseteq Addr /\ Block(d, Min({n, l}) + 1) \cap Block(s, l + 1) = {}
           /\ Called("ndup", d, s, n) /\ mem' = Strndup(mem, d, s, n)
  <2>1. Copying(m, d, s, l, Min({n, l}) + 1)
    <3>1. Min({n, l}) + 1 \in Nat
      BY <1>5, MinOfTwo
    <3> QED
      BY <1>4, <1>9, <3>1, Zenon DEF Copying, Apart
  <2>2. b = Strndup(m, d, s, n)
    BY <1>2, <1>9
  <2>3. b \in Memory /\ Arrives(m, b, "ndup", d, s, n)
    BY <1>4, <1>5, <2>1, <2>2, StrndupArrives
  <2>4. mem' \in Memory /\ Arrives(mem, mem', "ndup", d, s, n)
    BY <1>2, <2>3, Zenon
  <2> QED
    BY <1>9, <2>4, CallKeeps
<1>10. CASE /\ n = l + 1 /\ Block(d, k + n) \subseteq Addr /\ Block(d, k + n) \cap Block(s, l + 1) = {}
            /\ Called("cat", d, s, n) /\ mem' = Strcat(mem, d, s)
  <2>1. Copying(m, d, s, l, k + (l + 1))
    <3>1. k + n \in Nat
      BY <1>5
    <3> QED
      BY <1>4, <1>10, <3>1, Zenon DEF Copying, Apart
  <2>2. b = Strcat(m, d, s)
    BY <1>2, <1>10
  <2>3. b \in Memory /\ Arrives(m, b, "cat", d, s, n)
    BY <1>4, <2>1, <2>2, StrcatArrives
  <2>4. mem' \in Memory /\ Arrives(mem, mem', "cat", d, s, n)
    BY <1>2, <2>3, Zenon
  <2> QED
    BY <1>10, <2>4, CallKeeps
<1> QED
  BY <1>1, <1>2, <1>3, <1>7, <1>8, <1>9, <1>10, Zenon

(* strtok, called for a text or to go on with it, keeps the invariant. *)
LEMMA SplitKeeps ==
    ASSUME StringsInv, Split
    PROVE  StringsInv'
<1>1. PICK b \in Memory, n \in {mem'}, w \in {words}, v \in {words'} :
          b = mem /\ n = mem' /\ w = words /\ v = words'
  BY DEF StringsInv, StringsTypeOK
<1>2. Size \in Nat \ {0} /\ Addr = 0..Size - 1 /\ 0 \in Addr
  BY MemoryIs
<1>3. CASE /\ call = NoCall
           /\ \E s \in Addr : Strtok(s) /\ call' = [NoCall EXCEPT !.op = "split", !.s = s]
           /\ before' = mem
  <2>1. PICK s \in Addr : Strtok(s) /\ call' = [NoCall EXCEPT !.op = "split", !.s = s]
    BY <1>3
  <2>2. call' = [op |-> "split", d |-> 0, s |-> s, n |-> 0]
    BY <2>1 DEF NoCall
  <2>3. w = <<>> /\ b[Size - 1] = 0
    BY <1>1, <1>3 DEF StringsInv, Fresh
  <2>4. PICK l : TextAt(b, s, l)
    <3>1. Size - 1 \in {a \in s..Size - 1 : b[a] = 0} \cup {Size}
      BY <1>2, <2>3
    <3>2. {a \in s..Size - 1 : b[a] = 0} \cup {Size} \subseteq Nat
      BY <1>2
    <3>3. EndOf(b, s) <= Size - 1 /\ EndOf(b, s) \in Nat
      <4>1. PICK T : T = {a \in s..Size - 1 : b[a] = 0} \cup {Size}
        OBVIOUS
      <4>2. Min(T) \in T /\ \A x \in T : Min(T) <= x
        BY <3>1, <3>2, <4>1, MinIs
      <4>3. EndOf(b, s) = Min(T)
        BY <4>1, Zenon DEF EndOf
      <4> QED
        BY <3>1, <3>2, <4>1, <4>2, <4>3
    <3>4. EndOf(b, s) < Size
      BY <1>2, <3>3
    <3> QED
      BY <3>4, TextIs
  <2>5. l \in Nat /\ s \in Nat /\ s + l < Size /\ s + 0 = s
    BY <1>2, <2>4 DEF TextAt
  <2>6. Parsed(b, b, s, l, 0, w)
    <3>1. Str(b, s) \in Seq(Value)
      BY <2>4, StrIs
    <3>2. StartsUpTo(Str(b, s), Delims, 0) = {}
      <4>1. Starts(Str(b, s), Delims) \subseteq 1..Len(Str(b, s)) /\ Len(Str(b, s)) \in Nat
        BY <3>1, StartsAreFinite, LenProperties
      <4> QED
        BY <4>1 DEF StartsUpTo
    <3>3. Len(w) = Cardinality(StartsUpTo(Str(b, s), Delims, 0)) /\ Len(w) = 0
      <4>1. Cardinality({}) = 0
        BY FS_EmptySet
      <4> QED
        BY <2>3, <3>2, <4>1
    <3>4. 0 \in 0..l /\ w \in Seq(Seq(Value)) /\ \A h \in 1..Len(w) : w[h] = WordsOf(Str(b, s), Delims)[h]
      BY <2>3, <2>5
    <3> QED
      BY <2>4, <3>3, <3>4 DEF Parsed
  <2>7. PICK o : o = olds'
    OBVIOUS
  <2>8. Tokenised(b, s + 0, w, n, o, v)
    <3>1. Tokenised(mem, s, words, mem', olds', words')
      BY <2>1, Zenon DEF Strtok, Tokenised
    <3> QED
      BY <1>1, <2>5, <2>7, <3>1, Zenon
  <2>9. PICK j \in Nat : o = s + j /\ o \in Addr /\ n \in Memory /\ Parsed(b, n, s, l, j, v)
    <3>1. GoesOn(b, n, s, l, o, w, v)
      BY <2>6, <2>8, ParsedOn
    <3> QED
      BY <3>1, Zenon DEF GoesOn
  <2>10. SplitOf("split", b, n, s, o, v)
    <3>1. l \in 0..Size /\ j \in 0..Size
      BY <1>2, <2>5, <2>9 DEF Parsed
    <3> QED
      BY <2>9, <3>1, Zenon DEF SplitOf
  <2>11. StringsTypeOK'
    BY <1>1, <1>2, <1>3, <2>2, <2>7, <2>9 DEF StringsTypeOK
  <2>12. call'.op = "split" /\ call'.s = s
    BY <2>2
  <2>13. Fresh'
    BY <2>12 DEF Fresh, NoCall
  <2>14. CopyArrives'
    BY <2>12 DEF CopyArrives
  <2>15. Splitting'
    BY <1>1, <1>3, <2>7, <2>10, <2>12, Zenon DEF Splitting
  <2> QED
    BY <2>11, <2>13, <2>14, <2>15 DEF StringsInv
<1>4. CASE /\ call.op = "split" /\ Strtok(olds)
           /\ call' = [call EXCEPT !.op = IF words' = words THEN "done" ELSE "split"]
           /\ UNCHANGED before
  <2>1. PICK op : op = IF words' = words THEN "done" ELSE "split"
    OBVIOUS
  <2>2. call' = [call EXCEPT !.op = op] /\ op \in {"split", "done"}
    BY <1>4, <2>1, Zenon
  <2>3. PICK m \in Memory, s \in Addr, p \in {olds} : m = before /\ s = call.s /\ p = olds
    BY DEF StringsInv, StringsTypeOK
  <2>4. /\ call'.op = op /\ call'.s = s
        /\ call' \in [op : {"none", "move", "copy", "ncopy", "ndup", "cat", "split", "done"},
                      d : Addr, s : Addr, n : 0..Size]
    BY <2>2, <2>3 DEF StringsInv, StringsTypeOK
  <2>5. PICK l \in 0..Size, j \in 0..Size : p = s + j /\ Parsed(m, b, s, l, j, w)
    <3>1. SplitOf(call.op, m, b, s, p, w)
      BY <1>1, <1>4, <2>3, Zenon DEF StringsInv, Splitting
    <3> QED
      BY <3>1, Zenon DEF SplitOf
  <2>6. PICK o : o = olds'
    OBVIOUS
  <2>7. Tokenised(b, s + j, w, n, o, v)
    <3>1. Tokenised(mem, olds, words, mem', olds', words')
      BY <1>4, Zenon DEF Strtok, Tokenised
    <3> QED
      BY <1>1, <2>3, <2>5, <2>6, <3>1, Zenon
  <2>8. PICK k \in Nat : /\ o = s + k /\ o \in Addr /\ n \in Memory
                         /\ Parsed(m, n, s, l, k, v)
                         /\ v = w => AllParsed(m, s, v)
    <3>1. GoesOn(m, n, s, l, o, w, v)
      BY <2>5, <2>7, ParsedOn
    <3> QED
      BY <3>1, Zenon DEF GoesOn
  <2>9. SplitOf(op, m, n, s, o, v)
    <3>1. k \in 0..Size
      BY <1>2, <2>5, <2>8 DEF Parsed
    <3>2. op = "done" => v = w
      BY <1>1, <2>1
    <3> QED
      BY <2>5, <2>8, <3>1, <3>2, Zenon DEF SplitOf
  <2>10. before' = m
    BY <1>4, <2>3
  <2>11. StringsTypeOK'
    BY <1>1, <2>4, <2>6, <2>8, <2>10 DEF StringsTypeOK
  <2>12. Fresh'
    BY <2>2, <2>4 DEF Fresh, NoCall
  <2>13. CopyArrives'
    BY <2>2, <2>4 DEF CopyArrives
  <2>14. Splitting'
    BY <1>1, <2>4, <2>6, <2>9, <2>10, Zenon DEF Splitting
  <2> QED
    BY <2>11, <2>12, <2>13, <2>14 DEF StringsInv
<1> QED
  BY <1>3, <1>4, Zenon DEF Split

(* The invariant of the string library: every call that copies has brought what was
   asked for, and strtok has handed out the words of the text before its position. *)
THEOREM StringsInvariant == StringsSpec => []StringsInv
<1>1. StringsInit => StringsInv
  <2> SUFFICES ASSUME StringsInit PROVE StringsInv
    OBVIOUS
  <2>1. Size \in Nat \ {0} /\ Addr = 0..Size - 1
    BY MemoryIs
  <2>2. call = NoCall /\ call.op = "none" /\ mem \in Memory /\ mem[Size - 1] = 0
    BY DEF StringsInit, NoCall, Memory, Value
  <2>3. StringsTypeOK
    BY <2>1, <2>2 DEF StringsInit, StringsTypeOK, NoCall
  <2>4. Fresh
    BY <2>2 DEF StringsInit, Fresh
  <2>5. CopyArrives /\ Splitting
    BY <2>2 DEF CopyArrives, Splitting
  <2> QED
    BY <2>3, <2>4, <2>5 DEF StringsInv
<1>2. StringsInv /\ [StringsNext]_stringVars => StringsInv'
  <2> SUFFICES ASSUME StringsInv, [StringsNext]_stringVars PROVE StringsInv'
    OBVIOUS
  <2>1. CASE Move
    BY <2>1, MoveKeeps
  <2>2. CASE CopyString
    BY <2>2, CopyStringKeeps
  <2>3. CASE Split
    BY <2>3, SplitKeeps
  <2>4. CASE UNCHANGED stringVars
    <3>1. mem' = mem /\ olds' = olds /\ call' = call /\ before' = before /\ words' = words
      BY <2>4 DEF stringVars
    <3>2. StringsTypeOK' /\ Fresh'
      BY <3>1 DEF StringsInv, StringsTypeOK, Fresh
    <3>3. CopyArrives'
      BY <3>1, Zenon DEF StringsInv, CopyArrives
    <3>4. Splitting'
      BY <3>1, Zenon DEF StringsInv, Splitting
    <3> QED
      BY <3>2, <3>3, <3>4 DEF StringsInv
  <2> QED
    BY <2>1, <2>2, <2>3, <2>4 DEF StringsNext, Done
<1> QED
  BY <1>1, <1>2, PTL DEF StringsSpec

(* Copies, however they overlap where they may, bring what was asked for and nothing else
   (CopyArrives). *)
THEOREM StringsCopyArrives == StringsSpec => []CopyArrives
<1>1. StringsInv => CopyArrives
  BY DEF StringsInv
<1> QED
  BY <1>1, StringsInvariant, PTL

(* The comparisons agree with the texts (CompareAgrees). *)
THEOREM StringsCompareAgrees == StringsSpec => []CompareAgrees
<1>1. StringsInv => CompareAgrees
  BY Comparisons DEF StringsInv
<1> QED
  BY <1>1, StringsInvariant, PTL

(* strtok hands out the words of the text in order, and all of them (TokensAreWords). *)
THEOREM StringsTokensAreWords == StringsSpec => []TokensAreWords
<1>1. StringsInv => TokensAreWords
  <2> SUFFICES ASSUME StringsInv, call.op \in {"split", "done"}
               PROVE  /\ IsPrefix(words, WordsOf(Str(before, call.s), Delims))
                      /\ call.op = "done" => words = WordsOf(Str(before, call.s), Delims)
    BY Zenon DEF TokensAreWords
  <2>1. PICK m \in Memory, s \in Addr, b \in {mem}, w \in {words} :
             m = before /\ s = call.s /\ b = mem /\ w = words
    BY DEF StringsInv, StringsTypeOK
  <2>2. SplitOf(call.op, m, b, s, olds, w)
    BY <2>1, Zenon DEF StringsInv, Splitting
  <2>3. PICK l, j : Parsed(m, b, s, l, j, w) /\ (call.op = "done" => AllParsed(m, s, w))
    BY <2>2, Zenon DEF SplitOf
  <2>4. IsPrefix(w, WordsOf(Str(m, s), Delims)) /\ (AllParsed(m, s, w) => w = WordsOf(Str(m, s), Delims))
    BY <2>3, HandedOut
  <2> QED
    BY <2>1, <2>3, <2>4, Zenon
<1> QED
  BY <1>1, StringsInvariant, PTL
=============================================================================
