--------------------------- MODULE MCHttpProtocol ---------------------------
(* Instances of HttpProtocol for TLC: texts that hold digits and ends of     *)
(* lines, in every coding.                                                   *)
EXTENDS HttpProtocol

MCText  == <<"CR", "LF", "5", "CR", "LF", "CR", "LF", "x">>
MCLong  == [i \in 1..17 |-> IF i % 5 = 0 THEN "0" ELSE IF i % 5 = 1 THEN "CR" ELSE "LF"]

MCAnswer(status, fields, text, cuts) ==
  [status |-> status, fields |-> fields, text |-> text, cuts |-> cuts]

MCUnits == {"CR", "LF", "0", "5", "x", "y"}

\* Sizes up to that of a text with its two marks, some with a zero in front.
MCHex ==
  [n \in 0..19 |->
     IF n >= 16 THEN <<"1", Digits[n - 15]>>
     ELSE IF n % 5 = 1 THEN <<"0", Digits[n + 1]>> ELSE <<Digits[n + 1]>>]

MCResponses ==
  {MCAnswer("200", <<"field">>, MCText, <<>>),
   MCAnswer("200", <<"field", "chunked">>, MCText, <<2, 3, 8>>),
   MCAnswer("200", <<"chunked">>, MCLong, <<1, 17>>),
   MCAnswer("200", <<"gzip", "set-cookie">>, MCText, <<>>),
   MCAnswer("200", <<"gzip", "field", "chunked">>, MCText, <<9, 10>>),
   MCAnswer("200", <<"deflate">>, MCText, <<>>),
   MCAnswer("200", <<"deflate", "chunked">>, MCText, <<4, 9>>),
   MCAnswer("200", <<>>, <<"x", "y">>, <<>>),
   MCAnswer("301", <<"location", "gzip", "chunked", "set-cookie">>, <<>>, <<2>>),
   MCAnswer("301", <<"location", "set-cookie", "set-longer-cookie">>, <<>>, <<>>),
   MCAnswer("301", <<"set-longest-cookie", "location">>, <<>>, <<>>),
   MCAnswer("301", <<"field">>, <<>>, <<>>),
   MCAnswer("404", <<"field">>, <<"x">>, <<>>),
   MCAnswer("503", <<"field">>, <<"x">>, <<>>)}
MCPageSizes == {2, 5}

\* With a buffer of 8 the second cookie cuts the request, the third overruns the buffer.
MCCookieSize ==
  [c \in Cookies |-> IF c = "set-cookie" THEN 1 ELSE IF c = "set-longer-cookie" THEN 5 ELSE 6]
=============================================================================
