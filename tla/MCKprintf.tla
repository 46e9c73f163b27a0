----------------------------- MODULE MCKprintf -----------------------------
(* Two threads that call kprintf_level() again and again, the second always  *)
(* with the same format; a buffer of 11 characters, without an end at first.  *)
EXTENDS Kprintf

Txt(str) == [spec |-> "text", num |-> 0, str |-> str]
Num(spec, num) == [spec |-> spec, num |-> num, str |-> <<>>]
Str(spec, str) == [spec |-> spec, num |-> 0, str |-> str]
Message(tokens, target, level) == [tokens |-> tokens, target |-> target, level |-> level]

MCChars == {Digit(d) : d \in 0 .. 9}
    \cup {"%", " ", "d", "u", "f", "s", "x", "c", "a", "b", "z", "I", "?"}
Long == [i \in 1 .. 11 |-> "a"]
MCMessages == {
    Message(<<Str("s", <<"a", "b", "z">>), Txt(<<"%">>)>>, "SERIAL_PORT", FALSE),
    Message(<<>>, "SERIAL_PORT", TRUE),
    Message(<<Txt(<<"%", " ">>), Str("c", <<"a">>), Num("du", 40), Txt(<<"u">>), Num("d", INT_MAX)>>,
            "FRAME_BUFFER", TRUE),
    Message(<<Num("f", 7), Str("s", Long), Num("x", 1)>>, "FRAME_BUFFER", TRUE),
    Message(<<Num("f", 0), Num("d", 0)>>, "FRAME_BUFFER", FALSE)}
MCCalls == [t \in {1, 2} |->
    IF t = 1 THEN MCMessages ELSE {Message(<<Num("d", 12)>>, "SERIAL_PORT", FALSE)}]
MCLevel == <<"I">>
MCSpaces == {" "}
MCJunk == [i \in 1 .. 11 |-> "?"]
=============================================================================
