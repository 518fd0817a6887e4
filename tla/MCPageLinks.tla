---------------------------- MODULE MCPageLinks -----------------------------
(* Instances of PageLinks for TLC.                                           *)
EXTENDS PageLinks

Pair(a, b) == <<Codes(a), Codes(b)>>

MCSeeds == {Codes("W.A.co.uk:80/a")}
MCStarts ==
  {Pair("", ""), Pair("/", "//"), Pair("a", "./%61"),
   Pair("http://a.B:08080/", "http://a.b:8080/"),
   Pair("https://W.%41.com.:080/", "http://w.a.com/"), Pair("HTTP://X.bj.cn/", "http://x.bj.cn/"),
   Pair("http://y.x.com.ru/", "http://y.x.com.ru//"), Pair("http://a.x.yz/", "http://a.x.yz/./"),
   Pair("http://a/", "http://a/"), Pair("ftp://a.b/", "ftp://a.b/")}
MCPieces ==
  {Pair("/", "\\"), Pair("a", "%61"), Pair("..", "%2E."), Pair(".", "%2e"),
   Pair("%2f", "%2f"), Pair("b c", "b%20c"), Pair("/", "/b/..//")}
MCTails ==
  {Codes("?"), Codes(";"), Codes("#"), Codes("%"), Codes("%25"), Codes("41"), Codes("/../")}
==============================================================================
