------------------------------- MODULE Kprintf -------------------------------
(***************************************************************************)
(* kprintf_level() on the serial port or the frame buffer.  A format is a  *)
(* sequence of characters that is searched for formatters as in the code;  *)
(* what a caller means by it is a sequence of tokens, literal text and     *)
(* conversions with their arguments, and the two are compared.  The text of *)
(* an argument passes through a buffer of fixed size.                      *)
(***************************************************************************)
EXTENDS SerialPort, SequencesExt, FiniteSetsExt

CONSTANTS
    Chars,         \* the characters of formats and strings
    Calls,         \* the calls of every thread: tokens, target, whether with a log level
    LevelText,     \* the text of the log level
    Spaces,        \* the characters isspace() accepts
    Junk,          \* what the buffer, and what is behind it, holds before it is written to
    CONTAINER      \* arg_container_size: 128

VARIABLES
    call,          \* the call every thread makes, or the last one it made
    search_from,   \* its position in the format; NULL behind the last piece
    args,          \* the arguments va_arg() has not taken
    container,     \* arg_container
    pieces,        \* the write_gen() calls that are due
    written,
    printed,       \* history: the text of the write_gen() calls of the call
    overrun        \* history: it wrote or read arg_container behind its end

locals == <<call, search_from, args, container, pieces, written, printed, overrun>>
kprintfVars == <<port, at, data, locals>>

NULL == 0
NoCall == [tokens |-> <<>>, target |-> "NONE", level |-> FALSE]

-----------------------------------------------------------------------------
(* Numbers and tokens.                                                     *)

Digit(d) == <<"0", "1", "2", "3", "4", "5", "6", "7", "8", "9">>[d + 1]

PowersOfTen ==
    <<1, 10, 100, 1000, 10000, 100000, 1000000, 10000000, 100000000, 1000000000>>

\* itoa(): the decimal digits; none for 0.
itoa[val \in Nat] == IF val = 0 THEN <<>> ELSE Append(itoa[val \div 10], Digit(val % 10))

\* A token is text (spec "text") or a conversion and its argument: what its words
\* are as a number and what they point to as a string.
Token == [spec : Chars \cup {"text", "du"}, num : Nat, str : Seq(Chars)]

Flat(token) ==
    CASE token.spec = "text" -> token.str
      [] token.spec = "du"   -> <<"%", "d", "u">>
      [] OTHER               -> <<"%", token.spec>>

\* The format a caller writes for its tokens, and the words it passes: a double has two.
Format(c) == FlattenSeq([i \in DOMAIN c.tokens |-> Flat(c.tokens[i])])
Words(token) ==
    CASE token.spec = "text" -> <<>>
      [] token.spec = "f"    -> <<token, token>>
      [] OTHER               -> <<token>>
Arguments(c) == FlattenSeq([i \in DOMAIN c.tokens |-> Words(c.tokens[i])])

\* The reading of the format is not in doubt: a '%' in a text comes before a space or
\* ends the format, and the text behind a "%d" does not begin with 'u'.
PlainText(tokens, i) ==
    LET str == tokens[i].str IN
    /\ str # <<>>
    /\ \A j \in DOMAIN str : str[j] = "%" =>
          IF j < Len(str) THEN str[j + 1] \in Spaces ELSE i = Len(tokens)
    /\ i > 1 /\ tokens[i - 1].spec = "d" => str[1] # "u"

\* A word has at most ten digits.
WellFormed(c) ==
    /\ c \in [tokens : Seq(Token), target : {"SERIAL_PORT", "FRAME_BUFFER"}, level : BOOLEAN]
    /\ \A i \in DOMAIN c.tokens :
          LET token == c.tokens[i] IN
          IF token.spec = "text" THEN PlainText(c.tokens, i)
          ELSE /\ token.spec \notin Spaces
               /\ token.spec = "c" => Len(token.str) = 1
               /\ token.num \div 10 < PowersOfTen[10]

ASSUME KprintfAssumption ==
    /\ CONTAINER \in Nat /\ CONTAINER > 10
    /\ Junk \in Seq(Chars)
    /\ LevelText \in Seq(Chars)
    /\ {"%", "d", "u"} \subseteq Chars /\ \A d \in 0 .. 9 : Digit(d) \in Chars
    /\ "d" \notin Spaces
    /\ \A t \in Threads : \A c \in Calls[t] : WellFormed(c)

-----------------------------------------------------------------------------
(* search_next_arg() and the text of an argument.                          *)

is_formatter(f, s) == f[s] = "%" /\ s < Len(f) /\ f[s + 1] \notin Spaces

arg_start(f, from) ==
    LET found == {s \in from .. Len(f) : is_formatter(f, s)}
    IN  IF found = {} THEN NULL ELSE Min(found)

\* Slip: an unsigned conversion is as long as the others.
ArgLengthTwo(f, s) == 2

ArgLength(f, s) == IF s + 2 <= Len(f) /\ f[s + 1] = "d" /\ f[s + 2] = "u" THEN 3 ELSE 2

\* "%f" leaves its words to the conversions behind it; an unknown letter is an int.
TakesArg(f, s) == f[s + 1] # "f"

\* The first character of a string.
FirstOf(str) == IF str = <<>> THEN <<>> ELSE <<Head(str)>>

\* Slip: numbers are brought to one width.
TextPadded(f, s, t) ==
    CASE f[s + 1] = "f" -> container[t]
      [] f[s + 1] = "c" -> FirstOf(Head(args[t]).str)
      [] f[s + 1] = "s" -> Head(args[t]).str
      [] OTHER -> [i \in 1 .. CONTAINER |-> "0"]

\* The text of the next argument; "%f" leaves what was there.
Text(f, s, t) ==
    CASE f[s + 1] = "f" -> container[t]
      [] f[s + 1] = "c" -> FirstOf(Head(args[t]).str)
      [] f[s + 1] = "s" -> Head(args[t]).str
      [] OTHER -> itoa[Head(args[t]).num]

-----------------------------------------------------------------------------
KprintfInit ==
    /\ SerialInit
    /\ call = [t \in Threads |-> NoCall]
    /\ search_from = [t \in Threads |-> NULL]
    /\ args = [t \in Threads |-> <<>>]
    /\ container = [t \in Threads |-> Junk]
    /\ pieces = [t \in Threads |-> <<>>]
    /\ written = [t \in Threads |-> 0]
    /\ printed = [t \in Threads |-> <<>>]
    /\ overrun = [t \in Threads |-> FALSE]

Ready(t) == at[t] = "out" /\ pieces[t] = <<>>
Returned(t) == call[t] # NoCall /\ Ready(t) /\ search_from[t] = NULL

\* A thread calls kprintf_level(), as often as it likes; the log level is the first
\* piece.
Call(t, c) ==
    /\ call[t] = NoCall \/ Returned(t)
    /\ call' = [call EXCEPT ![t] = c]
    /\ search_from' = [search_from EXCEPT ![t] = 1]
    /\ args' = [args EXCEPT ![t] = Arguments(c)]
    /\ container' = [container EXCEPT ![t] = IF c.level THEN <<>> ELSE Junk]
    /\ pieces' = [pieces EXCEPT ![t] = IF c.level THEN <<LevelText>> ELSE <<>>]
    /\ written' = [written EXCEPT ![t] = 0]
    /\ printed' = [printed EXCEPT ![t] = <<>>]
    /\ overrun' = [overrun EXCEPT ![t] = FALSE]
    /\ UNCHANGED <<port, at, data>>

\* One turn of the loop: the next formatter, the text of its argument, and the
\* pieces before and for it.
Turn(t) ==
    /\ Ready(t) /\ search_from[t] # NULL
    /\ \E f \in {Format(call[t])}, from \in {search_from[t]} : \E s \in {arg_start(f, from)} :
          IF s = NULL
          THEN /\ search_from' = [search_from EXCEPT ![t] = NULL]
               /\ pieces' = [pieces EXCEPT ![t] = <<SubSeq(f, from, Len(f))>>]
               /\ UNCHANGED <<args, container, overrun>>
          ELSE \E text \in {Text(f, s, t)} :
               /\ search_from' = [search_from EXCEPT ![t] = s + ArgLength(f, s)]
               /\ pieces' = [pieces EXCEPT ![t] = <<SubSeq(f, from, s - 1), text>>]
               /\ container' = [container EXCEPT ![t] = text]
               /\ args' = [args EXCEPT ![t] = IF TakesArg(f, s) THEN Tail(@) ELSE @]
               /\ overrun' = [overrun EXCEPT ![t] = @ \/ Len(text) >= CONTAINER]
    /\ UNCHANGED <<port, at, data, call, written, printed>>

\* write_gen(): to the frame buffer at once, to the serial port byte by byte.
WriteGen(t) ==
    /\ at[t] = "out" /\ pieces[t] # <<>>
    /\ IF call[t].target = "SERIAL_PORT" THEN Enter(t, Head(pieces[t]))
       ELSE UNCHANGED <<port, at, data>>
    /\ pieces' = [pieces EXCEPT ![t] = Tail(@)]
    /\ printed' = [printed EXCEPT ![t] = @ \o Head(pieces[t])]
    /\ written' = [written EXCEPT ![t] = @ + Len(Head(pieces[t]))]
    /\ UNCHANGED <<call, search_from, args, container, overrun>>

Serial(t) == SerialStep(t) /\ UNCHANGED locals

KprintfStep(t) == Turn(t) \/ WriteGen(t) \/ Serial(t)

\* The port sends what it holds.
PortSends == Transmit /\ UNCHANGED locals

KprintfNext ==
    \/ \E t \in Threads : \E c \in Calls[t] : Call(t, c)
    \/ \E t \in Threads : KprintfStep(t)
    \/ PortSends

KprintfSpec == KprintfInit /\ [][KprintfNext]_kprintfVars

\* The processor comes back to some thread in kprintf_level(), not to every one.
FairSpec ==
    KprintfSpec /\ WF_kprintfVars(PortSends) /\ WF_kprintfVars(\E t \in Threads : KprintfStep(t))

-----------------------------------------------------------------------------
(* Properties.                                                             *)

\* The digits of a number, one for every power of ten up to it.
Numeral(num) ==
    LET k == Cardinality({p \in 1 .. 10 : PowersOfTen[p] <= num})
    IN  [i \in 1 .. k |-> Digit((num \div PowersOfTen[(k - i) + 1]) % 10)]

\* What a caller means by a token it can print: its text, or a number in decimal.
MeaningOf(token) ==
    IF token.spec \in {"text", "c", "s"} THEN token.str
    ELSE IF token.num = 0 THEN <<"0">> ELSE Numeral(token.num)
Meaning(tokens) == FlattenSeq([i \in DOMAIN tokens |-> MeaningOf(tokens[i])])

\* The greatest int.
INT_MAX == 2147483647

\* The conversions that do what their letter says: not "%f" (the TODO at
\* kprintf.c:179), no letter search_next_arg() does not know, not 0, for which
\* itoa() writes no digit, and no negative "%d" (the TODO at kprintf.c:168).
Supported(c) ==
    \A i \in DOMAIN c.tokens :
        LET token == c.tokens[i] IN
        \/ token.spec \in {"text", "c", "s"}
        \/ token.spec \in {"du", "p"} /\ token.num > 0
        \/ token.spec = "d" /\ token.num \in 1 .. INT_MAX

\* The calls that leave arg_container: strcpy() (kprintf.c:183) of a string that is
\* not shorter, or, behind a "%f", of whatever its double points to; and a
\* "%f" that prints a buffer without an end (kprintf.c:194).
MayOverrun(c) ==
    \E i \in DOMAIN c.tokens :
        LET token == c.tokens[i] IN
        \/ /\ token.spec = "s"
           /\ Len(token.str) >= CONTAINER \/ \E j \in 1 .. (i - 1) : c.tokens[j].spec = "f"
        \/ token.spec = "f" /\ ~ c.level /\ Len(Junk) >= CONTAINER

KprintfTypeOK ==
    /\ dlab \in BOOLEAN /\ overlapped \in BOOLEAN
    /\ at \in [Threads -> Places] /\ overrun \in [Threads -> BOOLEAN]
    /\ \A t \in Threads : written[t] \in Nat /\ search_from[t] \in 0 .. (Len(Format(call[t])) + 1)

\* A call whose conversions are supported has written what the caller means by its
\* tokens when it returns, and has used all arguments: the search neither
\* swallows text behind a conversion nor takes a '%' before a space or at the
\* end for one.  Every call returns the length of what it wrote.
PrintsTheFormat ==
    \A t \in Threads : Returned(t) =>
        LET c == call[t] IN
        /\ written[t] = Len(printed[t])
        /\ Supported(c) =>
              /\ printed[t] = (IF c.level THEN LevelText ELSE <<>>) \o Meaning(c.tokens)
              /\ args[t] = <<>>

\* No number leaves arg_container, and no call but those of MayOverrun.
OnlyStringsOverrun == \A t \in Threads : overrun[t] => MayOverrun(call[t])

\* Unless two threads were in serial_write() at the same time since the port was
\* last idle, it sends every byte it was given, once and in order, and as it
\* was given: only the last two bytes of a write_gen(), one in the shift
\* register and one behind it, may still be on their way when the next call
\* sets the divisor to 0 and back.
BytesArrive ==
    ~ overlapped =>
        LET out == tsr \o thr IN
        /\ Len(out) = Len(sent)
        /\ \A i \in DOMAIN out :
              out[i] = sent[i] \/ (out[i] = Spoiled(sent[i]) /\ sent[i].rest <= 1)

\* The threads in kprintf_level() never stay the same for ever: with the processor
\* some call returns, also of threads that spoil each other's output and wait
\* for one transmitter.  (A given one may not: see the README on fairness.)
Busy(t) == call[t] # NoCall /\ ~ Returned(t)
SomeCallReturns ==
    \A S \in SUBSET Threads \ {{}} : []<>({t \in Threads : Busy(t)} # S)

\* The search of kprintf_level() for conversions stays in the format, and the text
\* of an argument in its buffer, but for the calls of MayOverrun.
ArgumentStaysInBuffer == KprintfTypeOK /\ OnlyStringsOverrun

=============================================================================
