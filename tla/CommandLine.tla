---------------------------- MODULE CommandLine -----------------------------
(***************************************************************************)
(* What the shell makes of a line (src/src/user/command.c): extract_args   *)
(* splits it into arguments, path_to_dir_stack takes a path apart, kill    *)
(* and sound pass on a number.  These are functions of a string, here a    *)
(* sequence of characters, compared with references that look at the       *)
(* string as a whole, for each line of up to MAX_LINE characters that is   *)
(* typed.                                                                  *)
(***************************************************************************)
EXTENDS Integers, Sequences, FiniteSets, SequencesExt

CONSTANTS Letters,          \* some characters of names
          DIR_NAME_LENGTH,  \* characters of a name (8)
          DIR_EXT_LENGTH,   \* characters of an extension (3)
          UINT32,           \* how many numbers have 32 bits
          UINT64,           \* and 64
          MAX_LINE          \* the longest line that is typed

DOT == "."
FWSLASH == "/"
NULL_CHAR == "NUL"
Space == " "
Quote == "\""
Minus == "-"    \* a character that is_alpha_numeric refuses

MAX_COMMAND_ARGS == 20
PIT_FREQUENCY == 1193180

Characters == Letters \cup {DOT, FWSLASH, Minus, Space, Quote}

ASSUME CommandLineAssumption ==
    /\ DIR_NAME_LENGTH \in Nat \ {0} /\ DIR_EXT_LENGTH \in Nat \ {0}
    /\ MAX_LINE \in Nat /\ MAX_LINE < 2 * MAX_COMMAND_ARGS  \* no more words than fit
    /\ UINT32 \in Nat /\ UINT64 \in Nat /\ PIT_FREQUENCY < UINT32 /\ UINT32 <= UINT64
    /\ Letters \cap {DOT, FWSLASH, NULL_CHAR, Space, Quote, Minus} = {}

VARIABLE line  \* what was typed so far

-----------------------------------------------------------------------------
(* Pieces of a string, as sets of positions *)

\* How many of the positions are not after i.
Rank(positions, i) == Cardinality({j \in positions : j <= i})

Nth(positions, n) == CHOOSE i \in {j \in positions : Rank(positions, j) = n} : TRUE

\* The characters at these positions, in their order.
Listed(text, positions) ==
    [n \in 1 .. Cardinality(positions) |-> text[Nth(positions, n)]]

\* Where a run of consecutive positions begins.
Firsts(open) == {i \in open : i - 1 \notin open}

\* What is kept of each run of consecutive open positions.
Pieces(text, open, kept) ==
    LET firsts == Firsts(open)
    IN  [k \in 1 .. Cardinality(firsts) |->
            Listed(text, {i \in open \cap kept : Rank(firsts, i) = k})]

-----------------------------------------------------------------------------
(* Paths *)

DotDot == [name |-> <<DOT, DOT>>, ext |-> <<>>]

INVALID_NAME == 1
INVALID_EXTENSION == 2
TOO_LONG_FILENAME == 3
EXTENSION_EMPTY == 4
FILENAME_EMPTY == 5
TOO_LONG_EXTENSION == 6

Scan == [stack |-> <<>>, name |-> <<>>, ext |-> <<>>, inExt |-> FALSE,
         skip |-> 0, end |-> FALSE, code |-> 0]

NextComponent(scan) ==
    [scan EXCEPT !.name = <<>>, !.ext = <<>>, !.inExt = FALSE]

\* A scan that keeps the extension of the component before.
EndComponent_KeepsExtension(scan) ==
    IF scan.inExt /\ scan.ext = <<>> THEN [scan EXCEPT !.code = EXTENSION_EMPTY]
    ELSE CASE scan.name # <<>> ->
                [scan EXCEPT !.name = <<>>, !.inExt = FALSE,
                    !.stack = Append(@, [name |-> scan.name, ext |-> scan.ext])]
           [] scan.name = <<>> /\ scan.ext # <<>> -> [scan EXCEPT !.code = FILENAME_EMPTY]
           [] OTHER -> NextComponent(scan)

\* A slash or the end of the string.
EndComponent(scan) ==
    IF scan.inExt /\ scan.ext = <<>> THEN [scan EXCEPT !.code = EXTENSION_EMPTY]
    ELSE CASE scan.name # <<>> ->
                [NextComponent(scan) EXCEPT
                    !.stack = Append(@, [name |-> scan.name, ext |-> scan.ext])]
           [] scan.name = <<>> /\ scan.ext # <<>> -> [scan EXCEPT !.code = FILENAME_EMPTY]
           [] OTHER -> NextComponent(scan)

\* A second dot where no name came before; the character after it is skipped.
EndDotDot(scan, i, next) ==
    IF next \notin {FWSLASH, NULL_CHAR}
    THEN [scan EXCEPT !.code = INVALID_NAME]
    ELSE [NextComponent(scan) EXCEPT !.stack = Append(@, DotDot), !.skip = i + 1]

AddLetter(scan, char) ==
    CASE char \notin Letters ->
            [scan EXCEPT !.code = IF scan.inExt THEN INVALID_EXTENSION ELSE INVALID_NAME]
      [] char \in Letters /\ ~scan.inExt ->
            IF Len(scan.name) < DIR_NAME_LENGTH
            THEN [scan EXCEPT !.name = Append(@, char)]
            ELSE [scan EXCEPT !.code = TOO_LONG_FILENAME]
      [] OTHER ->
            IF Len(scan.ext) < DIR_EXT_LENGTH
            THEN [scan EXCEPT !.ext = Append(@, char)]
            ELSE [scan EXCEPT !.code = TOO_LONG_EXTENSION]

\* The scan of a text from start on, at its i-th character.
ScanChar(text, start, scan, i) ==
    IF scan.end \/ scan.code # 0 \/ i < start \/ i = scan.skip THEN scan
    ELSE CASE text[i] \in {FWSLASH, NULL_CHAR} ->
                [EndComponent(scan) EXCEPT !.end = text[i] = NULL_CHAR]
           [] text[i] = DOT ->
                IF scan.inExt /\ scan.name = <<>>
                THEN EndDotDot(scan, i, text[i + 1])
                ELSE [scan EXCEPT !.inExt = TRUE]
           [] OTHER -> AddLetter(scan, text[i])

\* The string is followed by zeroes, which a path that ends in two dots needs.
path_to_dir_stack(path) ==
    LET text == path \o <<NULL_CHAR, NULL_CHAR>>
        start == IF text[1] = DOT /\ text[2] = FWSLASH THEN 3 ELSE 1
        take(scan, i) == ScanChar(text, start, scan, i)
    IN  FoldLeft(take, Scan, [i \in 1 .. Len(text) |-> i])

\* The reference: the parts of a path between its slashes, and what each means.
\* A "." before the first slash is no part.
Parts(path) ==
    LET slashes == {i \in DOMAIN path : path[i] = FWSLASH}
        here == {i \in {1} : Len(path) > 1 /\ path[1] = DOT /\ path[2] = FWSLASH}
    IN  Pieces(path, DOMAIN path \ (slashes \cup here), DOMAIN path)

Dots(part) == {i \in 1 .. Len(part) : part[i] = DOT}

NameOf(part) ==
    IF Dots(part) = {} THEN part
    ELSE SubSeq(part, 1, (CHOOSE d \in Dots(part) : TRUE) - 1)

ExtOf(part) ==
    IF Dots(part) = {} THEN <<>>
    ELSE SubSeq(part, (CHOOSE d \in Dots(part) : TRUE) + 1, Len(part))

IsComponent(part) ==
    \/ part = DotDot.name
    \/ /\ Cardinality(Dots(part)) <= 1
       /\ ToSet(part) \subseteq Letters \cup {DOT}
       /\ Len(NameOf(part)) \in 1 .. DIR_NAME_LENGTH
       /\ Len(ExtOf(part)) \in (IF Dots(part) = {} THEN {0} ELSE 1 .. DIR_EXT_LENGTH)

Component(part) ==
    IF part = DotDot.name THEN DotDot
    ELSE [name |-> NameOf(part), ext |-> ExtOf(part)]

-----------------------------------------------------------------------------
(* Arguments *)

\* A split that takes no notice of quotes.
InArgument_Unquoted(split, char) == char # Space

InArgument(split, char) == split.quoted \/ char # Space

\* A space outside quotes, and those that follow it.
NextArgument(split) ==
    IF split.gap THEN split
    ELSE [split EXCEPT !.args = Append(@, <<>>), !.gap = TRUE]

ToArgument(split, char) ==
    [split EXCEPT !.args[Len(split.args)] = Append(@, char), !.gap = FALSE]

Split == [args |-> <<<<>>>>, quoted |-> FALSE, gap |-> TRUE]

SplitChar(split, char) ==
    CASE char = Quote -> [split EXCEPT !.quoted = ~@, !.gap = FALSE]
      [] char # Quote /\ InArgument(split, char) -> ToArgument(split, char)
      [] OTHER -> NextArgument(split)

extract_args(text) == FoldLeft(SplitChar, Split, text).args

\* The reference: the words between spaces with an even number of quotes before
\* them, and of each what is not a quote.
Cut(text) ==
    LET quotes == {i \in DOMAIN text : text[i] = Quote}
        gaps == {i \in DOMAIN text : text[i] = Space /\ Rank(quotes, i) % 2 = 0}
    IN  Pieces(text, DOMAIN text \ gaps, DOMAIN text \ quotes)

\* Arguments that were not given are empty.
Argument(args, k) == IF k <= Len(args) THEN args[k] ELSE <<>>

-----------------------------------------------------------------------------
(* Numbers *)

DigitValue == [char \in {"0", "1", "2", "3", "4", "5", "6", "7", "8", "9"} |->
    CASE char = "0" -> 0 [] char = "1" -> 1 [] char = "2" -> 2 [] char = "3" -> 3
      [] char = "4" -> 4 [] char = "5" -> 5 [] char = "6" -> 6 [] char = "7" -> 7
      [] char = "8" -> 8 [] OTHER -> 9]

\* A conversion that forgets what came before a digit.
str_to_positive_int_LastDigit(str) ==
    IF str = <<>> \/ ~(ToSet(str) \subseteq DOMAIN DigitValue)
    THEN [code |-> 1, num |-> 0]
    ELSE [code |-> 0, num |-> DigitValue[Last(str)]]

AddDigit(result, char) ==
    IF result.code # 0 THEN result
    ELSE IF char \in DOMAIN DigitValue
    THEN [result EXCEPT !.num = (@ * 10 + DigitValue[char]) % UINT64]
    ELSE [result EXCEPT !.code = 1]

\* Code 1 for what is not a number, 2 for what begins with a minus.
str_to_positive_int(str) ==
    CASE str = <<>> -> [code |-> 1, num |-> 0]
      [] str # <<>> /\ Head(str) = Minus -> [code |-> 2, num |-> 0]
      [] OTHER -> FoldLeft(AddDigit, [code |-> 0, num |-> 0], str)

\* The slot that is killed, if any: the lowest byte of the number.
handle_kill(args) ==
    LET number == str_to_positive_int(Argument(args, 2))
    IN  IF number.code # 0 THEN {} ELSE {number.num % 256}

\* A counter that is given its higher byte first.
play_sound_HighFirst(nFrequence) ==
    LET Div == PIT_FREQUENCY \div nFrequence
    IN  ((Div \div 256) % 256) + 256 * (Div % 256)

\* What the counter of the speaker is set to: two bytes, the lower one first.
play_sound(nFrequence) ==
    LET Div == PIT_FREQUENCY \div nFrequence
    IN  (Div % 256) + 256 * ((Div \div 256) % 256)

\* The counter that is set, if any: frequency 0 silences the speaker.  A system
\* call takes only the lower half of the number.
handle_sound(args) ==
    LET number == str_to_positive_int(Argument(args, 2))
        frequency == number.num % UINT32
    IN  IF number.code # 0 \/ frequency = 0 THEN {} ELSE {play_sound(frequency)}

\* The reference: each digit weighted with its place.
IsNumber(word) == word # <<>> /\ ToSet(word) \subseteq DOMAIN DigitValue

AddWeighted(sum, char) == [value |-> sum.value + DigitValue[char] * sum.weight,
                           weight |-> 10 * sum.weight]

NumberOf(word) ==
    FoldLeft(AddWeighted, [value |-> 0, weight |-> 1], Reverse(word)).value

-----------------------------------------------------------------------------
(* Typing *)

Init == line = <<>>

Type ==
    /\ Len(line) < MAX_LINE
    /\ \E char \in Characters : line' = Append(line, char)

Spec == Init /\ [][Type]_line

-----------------------------------------------------------------------------
(* Properties *)

\* Read as a path, the line is accepted exactly when each of its parts is "..",
\* a name or a name and an extension, neither too long, and then the stack has
\* these components in order.  Of parts with several dots this is not claimed:
\* path_to_dir_stack takes "a.b.c" for "a.bc" and ".a." for "..".
PathIsParsed ==
    LET parts == Parts(line)
        scan == path_to_dir_stack(line)
    IN  (\A part \in ToSet(parts) : Cardinality(Dots(part)) <= 1 \/ part = DotDot.name)
        => /\ scan.code = 0 <=> \A part \in ToSet(parts) : IsComponent(part)
           /\ scan.code = 0 =>
                 scan.stack = [k \in 1 .. Len(parts) |-> Component(parts[k])]

\* Read as a command, the line gives the arguments that were typed: words with
\* the spaces they were quoted with, however many spaces are between them.
WordsAreArguments ==
    LET args == extract_args(line)
        words == Cut(line)
    IN  \A k \in 1 .. MAX_LINE : Argument(args, k) = Argument(words, k)

\* Read as a kill, the line kills the slot whose number its second word is, and
\* none when that is no number; a number beyond a byte, of which only the lowest
\* byte is used, is left out.
KillsTheNumberTyped ==
    LET word == Argument(Cut(line), 2)
    IN  /\ IsNumber(word) /\ NumberOf(word) < 256 =>
                handle_kill(extract_args(line)) = {NumberOf(word)}
        /\ ~IsNumber(word) => handle_kill(extract_args(line)) = {}

\* Read as a sound, the line sets the counter whose frequency is the first from
\* the one typed upwards, as long as that counter has sixteen bits.
PlaysTheToneTyped ==
    LET word == Argument(Cut(line), 2)
        typed == NumberOf(word)
    IN  IsNumber(word) /\ typed \in 19 .. PIT_FREQUENCY =>
            \E counter \in handle_sound(extract_args(line)) :
                /\ counter * typed <= PIT_FREQUENCY
                /\ (counter + 1) * typed > PIT_FREQUENCY

=============================================================================
