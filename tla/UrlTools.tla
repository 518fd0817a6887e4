------------------------------ MODULE UrlTools ------------------------------
(***************************************************************************)
(* The URL functions of url_tools.cpp: splitting a URL into site, port and *)
(* path, bringing it to the one spelling under which the crawler stores    *)
(* it, testing that spelling, and the signature that is the key of the     *)
(* link table.                                                             *)
(*                                                                         *)
(* A URL is a sequence of character codes.  A C string ends at its first   *)
(* zero byte, so no URL holds a 0, and "one past the end" of a sequence    *)
(* stands for the terminator.  A function of the source that returns 0 for *)
(* failure returns Failed here.  The 64-bit hash of a spelling is modelled *)
(* by the spelling itself, inside a record: two spellings collide never.   *)
(***************************************************************************)
EXTENDS Integers, Sequences, SequencesExt

CONSTANTS
  MAX_URL_LEN,   \* sizes of the buffers, terminators included
  MAX_SITE_LEN,
  MAX_PATH_LEN,
  MAX_PORT_LEN

\* A site, a port and a slash fit the buffer of a URL.
ASSUME BufferAssumption ==
  /\ {MAX_URL_LEN, MAX_SITE_LEN, MAX_PATH_LEN, MAX_PORT_LEN} \subseteq Nat \ {0}
  /\ MAX_SITE_LEN + MAX_PORT_LEN <= MAX_URL_LEN

(***************************************************************************)
(* Characters.                                                             *)
(***************************************************************************)
From32 == " !\"#$%&'()*+,-./0123456789:;<=>?@ABCDEFGHIJKLMNOPQRSTUVWXYZ[\\]^_"
From97 == "abcdefghijklmnopqrstuvwxyz{|}~"

\* The code of each printable character, and the codes of a literal.
CodesFrom(first, string) ==
  [c \in {SubSeq(string, i, i) : i \in 1..Len(string)} |->
     first - 1 + CHOOSE i \in 1..Len(string) : SubSeq(string, i, i) = c]
CodeOf == CodesFrom(32, From32) @@ CodesFrom(97, From97)
Codes(string) == [i \in 1..Len(string) |-> CodeOf[SubSeq(string, i, i)]]

Char       == 1..255
Space      == 32
Hash       == 35
Percent    == 37
Plus       == 43
Hyphen     == 45
Dot        == 46
Slash      == 47
Zero       == 48
Colon      == 58
Semicolon  == 59
Question   == 63
Backslash  == 92
Underscore == 95

\* The tables of 256 flags that the source looks a character up in.
LFCR           == {10, 13}
RESERVED       == {36, 37, 38, 43, 44, 47, 58, 59, 61, 63, 64}    \* $%&+,/:;=?@
UCH_RES        == (32..255) \ {Hash}
PARAM          == UCH_RES \ {Semicolon, Question}
PCHAR          == PARAM \ {Slash}
URL_DIGIT      == 48..57
URL_UP_LET     == 65..90
URL_LET_DIGIT  == URL_DIGIT \union URL_UP_LET \union {c + 32 : c \in URL_UP_LET}
URL_LET_DIG_HY == URL_LET_DIGIT \union {Hyphen, Underscore}
URL_UCH_RES    == (32..255) \ {Hash}
URL_PARAM      == URL_UCH_RES \ {Semicolon, Question}
URL_PCHAR      == URL_PARAM \ {Slash}

\* The value of a hexadecimal digit.  Every other character counts as a zero too.
TO_CHAR(c) ==
  IF c \in URL_DIGIT THEN c - 48
  ELSE IF c \in 65..70 THEN c - 55
  ELSE IF c \in 97..102 THEN c - 87 ELSE 0

Lower(c) == IF c \in URL_UP_LET THEN c + 32 ELSE c

(***************************************************************************)
(* Strings.                                                                *)
(***************************************************************************)
Failed == [ok |-> FALSE]

Take(n, s)  == SubSeq(s, 1, n)
Drop(n, s)  == SubSeq(s, n + 1, Len(s))
\* What a buffer of that size holds of a string.
Fit(size, s) == IF Len(s) < size THEN s ELSE Take(size - 1, s)
Each(f(_), s) == [i \in 1..Len(s) |-> f(s[i])]
Replace(f(_), s) == FlattenSeq(Each(f, s))

\* The first position from i on whose character is outside chars, or in them.
Skip(i, chars, s) == Min({j \in i..Len(s) : s[j] \notin chars} \union {Len(s) + 1})
Find(c, s) == Min({j \in 1..Len(s) : s[j] = c} \union {Len(s) + 1})

Before(c, s) == Take(Find(c, s) - 1, s)
\* What remains when the characters at the end that are in chars are gone.
Strip(chars, s) == Take(Max({j \in 1..Len(s) : s[j] \notin chars} \union {0}), s)

\* The number a string of digits reads as, whatever follows them.
Number(s) ==
  LET digits == Skip(1, URL_DIGIT, s) - 1
      value[i \in 0..digits] == IF i = 0 THEN 0 ELSE 10 * value[i - 1] + (s[i] - Zero)
  IN value[digits]

\* atoi: blanks and a sign may precede the digits.
atoi(s) ==
  LET t == Drop(Skip(1, {Space} \union 9..13, s) - 1, s)
  IN IF t = <<>> THEN 0
     ELSE IF Head(t) = Hyphen THEN -Number(Tail(t))
     ELSE IF Head(t) = Plus THEN Number(Tail(t)) ELSE Number(t)

delete_inter(s) == Replace(LAMBDA c : IF c \in LFCR THEN <<>> ELSE <<c>>, s)

\* What two hexadecimal digits stand for; 0 if they are no such digits.
to_char(h, l) ==
  IF \/ TO_CHAR(h) = 0 /\ h # 48
     \/ TO_CHAR(l) = 0 /\ l # 48
  THEN 0 ELSE 16 * TO_CHAR(h) + TO_CHAR(l)

(***************************************************************************)
(* Splitting a URL.                                                        *)
(***************************************************************************)
Http  == <<104, 116, 116, 112, 58, 47, 47>>         \* http://
Https == <<104, 116, 116, 112, 115, 58, 47, 47>>    \* https://
HttpPort == <<56, 48>>                              \* 80

HasScheme(scheme, url) ==
  Len(scheme) <= Len(url) /\ \A i \in 1..Len(scheme) : Lower(url[i]) = scheme[i]

WithoutScheme(url) ==
  IF HasScheme(Http, url) THEN Drop(Len(Http), url)
  ELSE IF HasScheme(Https, url) THEN Drop(Len(Https), url) ELSE url

\* The host ends at the first slash or question mark.  A path that begins with
\* the latter gets a slash.
HostPart(rest) == Before(Slash, Before(Question, rest))
PathPart(rest) ==
  LET path == Drop(Len(HostPart(rest)), rest)
  IN IF path = <<>> \/ Head(path) = Question THEN <<Slash>> \o path ELSE path

SitePart(host) == Before(Colon, host)
PortPart(host) == Drop(Len(SitePart(host)) + 1, host)

Parts(input, all, host, path) ==
  LET site == SitePart(host)
      port == PortPart(host)
  IN IF \/ Len(input) >= MAX_URL_LEN
        \/ all /\ Len(path) >= MAX_PATH_LEN
        \/ all /\ site # host /\ (Len(port) + 1 >= MAX_PORT_LEN \/ atoi(port) <= 0)
        \/ site = <<>> \/ Len(site) >= MAX_SITE_LEN
     THEN Failed
     ELSE [ok   |-> TRUE, site |-> Strip({Dot}, site),
           port |-> IF port = HttpPort THEN <<>> ELSE port, path |-> path]

\* The site always, port and path only if the caller passes buffers for them.
parse_url(input, all) ==
  LET rest == WithoutScheme(delete_inter(input))
  IN Parts(input, all, HostPart(rest), PathPart(rest))

(***************************************************************************)
(* One spelling for every URL.                                             *)
(***************************************************************************)
Text(t) == [ok |-> TRUE, text |-> t]

\* An escape %XX of anything but zero begins at i.  Its digits are no percent
\* signs, so no escape begins within another.
Escape(i, s) ==
  s[i] = Percent /\ i + 2 <= Len(s) /\ to_char(s[i + 1], s[i + 2]) # 0
InEscape(i, s) == \E j \in {i - 2, i - 1} \intersect (1..Len(s)) : Escape(j, s)

\* A string as characters, each with the way it is written: an escape stands for
\* one character, a percent sign that begins none for itself.
UnitAt(i, s) ==
  IF Escape(i, s) THEN [raw |-> SubSeq(s, i, i + 2), char |-> to_char(s[i + 1], s[i + 2])]
  ELSE [raw |-> <<s[i]>>, char |-> s[i]]
Units(s) ==
  FlattenSeq([i \in 1..Len(s) |-> IF InEscape(i, s) THEN <<>> ELSE <<UnitAt(i, s)>>])

\* Letters, digits and hyphens in two or more labels that end with a letter or a
\* digit.  Capitals become small, escapes what they stand for.
SiteText(site, units, text) ==
  IF /\ site # <<>> /\ Head(site) \in URL_LET_DIG_HY
     /\ Dot \in Range(text)
     /\ \A i \in 1..Len(text) :
          \/ text[i] \in URL_LET_DIG_HY
          \/ units[i].raw = <<Dot>> /\ text[i - 1] \in URL_LET_DIGIT
     /\ Last(text) \in URL_LET_DIGIT
  THEN Text(text) ELSE Failed
normalize_site(site) ==
  LET units == Units(site)
  IN SiteText(site, units, Each(LAMBDA u : Lower(u.char), units))

PortNumber == 1..65535

\* A number without leading zeros; the port of HTTP is left out.
normalize_port_ZerosStay(port) ==
  IF port = <<>> \/ atoi(port) \in PortNumber THEN Text(port) ELSE Failed
normalize_port(port) ==
  LET number == Drop(Skip(1, {Zero}, port) - 1, port)
  IN IF port = <<>> THEN Text(port)
     ELSE IF Range(port) \subseteq URL_DIGIT /\ Len(port) <= 5 /\ atoi(port) \in PortNumber
     THEN Text(IF number = HttpPort THEN <<>> ELSE number)
     ELSE Failed

\* Where the parts of a path end that begins at i: what is up to the parameters,
\* these, and the query.
GroupEnd(i, mark, chars, s) ==
  IF i <= Len(s) /\ s[i] = mark THEN Skip(i, chars \union {mark}, s) ELSE i
PathEnds(i, s, pchar, param, uch_res) ==
  LET path   == Skip(i, pchar \union {Slash}, s)
      params == GroupEnd(path, Semicolon, param, s)
  IN <<path, params, GroupEnd(params, Question, uch_res, s)>>

\* An escape is undone where its character may stand for itself.
Recode_Reserved(class, u) == IF u.char \in class THEN <<u.char>> ELSE u.raw
Recode(class, u) ==
  IF Len(u.raw) = 1 \/ u.char \in class \ RESERVED THEN <<u.char>> ELSE u.raw

space_escape_path(path) ==
  LET text == Replace(LAMBDA c : IF c = Space THEN <<Percent, 50, 48>> ELSE <<c>>, path)
  IN IF Len(text) < MAX_PATH_LEN THEN Text(text) ELSE Failed

WithoutSpaces(text) == IF Space \in Range(text) THEN space_escape_path(text) ELSE Text(text)

\* The path up to a fragment, which is dropped; its parts end at ends.
PathText(units, ends) ==
  LET class(i) == IF i < ends[1] THEN PCHAR ELSE IF i < ends[2] THEN PARAM ELSE UCH_RES
  IN IF ends[3] <= Len(units) /\ Head(units[ends[3]].raw) # Hash THEN Failed
     ELSE WithoutSpaces(FlattenSeq([i \in 1..ends[3] - 1 |-> Recode(class(i), units[i])]))
single_path_nointer(path) ==
  LET units == Units(path)
      heads == Each(LAMBDA u : Head(u.raw), units)
  IN PathText(units, PathEnds(1, heads, PCHAR, PARAM, UCH_RES))

\* The query begins at the first question mark, else at the first semicolon.
QueryStart(path) ==
  IF Question \in Range(path) THEN Find(Question, path) ELSE Find(Semicolon, path)

replace_slash_Not(path) == path
replace_slash(path) ==
  [i \in 1..Len(path) |->
     IF path[i] = Backslash /\ i < QueryStart(path) THEN Slash ELSE path[i]]

\* Back to the slash before the last one; the root has no parent but itself.
BackToSlash(out) == Strip(Char \ {Slash}, out)
Parent_Stays(out) == BackToSlash(out)
Parent(out) == IF Len(out) = 1 THEN out ELSE BackToSlash(Front(out))

\* One round of the loop of normalize_path: what it has written, which begins and
\* mostly ends with a slash, and what it has still to read.
ResolveRound(out, rest) ==
  LET write == [out |-> Append(out, Head(rest)), rest |-> Tail(rest)]
  IN IF rest = <<>> THEN [out |-> out, rest |-> rest]
     ELSE IF Last(out) # Slash THEN write
     ELSE CASE IsPrefix(<<Dot, Slash>>, rest)      -> [out |-> out, rest |-> Drop(2, rest)]
            [] IsPrefix(<<Dot, Dot, Slash>>, rest) -> [out |-> Parent(out), rest |-> Drop(3, rest)]
            [] Head(rest) = Slash                  -> [out |-> out, rest |-> Tail(rest)]
            [] rest = <<Dot>>                      -> [out |-> out, rest |-> <<>>]
            [] rest = <<Dot, Dot>>                 -> [out |-> Parent(out), rest |-> <<>>]
            [] OTHER                               -> write
NextRound(r) == ResolveRound(r.out, r.rest)
Resolve(path) ==
  LET round[n \in 0..Len(path)] ==
        IF n = 0 THEN [out |-> <<Slash>>, rest |-> path] ELSE NextRound(round[n - 1])
  IN round[Len(path)].out

normalize_path(path) ==
  LET slashed == replace_slash(path)
      start   == QueryStart(slashed)
  IN Resolve(SubSeq(slashed, 2, start - 1)) \o Drop(start - 1, slashed)

\* The spelling, cut to the buffer it is printed into.
Printed(buf_size, site, port, path) ==
  LET colon == IF port.text = <<>> THEN <<>> ELSE <<Colon>>
  IN IF site.ok /\ port.ok /\ path.ok
     THEN Text(Fit(buf_size, site.text \o colon \o port.text \o normalize_path(path.text)))
     ELSE Failed
NormalParts(parts, buf_size) ==
  IF parts.ok
  THEN Printed(buf_size, normalize_site(parts.site), normalize_port(parts.port),
               single_path_nointer(parts.path))
  ELSE Failed
normalize_url(url, buf_size) == NormalParts(parse_url(url, TRUE), buf_size)

(***************************************************************************)
(* The test of that spelling, and the signature.                           *)
(***************************************************************************)
\* The source has no answer for a URL that begins with neither letter, digit nor
\* hyphen: it looks at the byte before it.  Such a URL fails here.
isnormalized_url(url) ==
  LET host  == Skip(1, URL_LET_DIG_HY \union {Dot}, url)
      site  == Take(host - 1, url)
      digits == Skip(host + 1, URL_DIGIT, url)
      port  == SubSeq(url, host + 1, digits - 1)
      path  == IF host <= Len(url) /\ url[host] = Colon THEN digits ELSE host
  IN /\ ~HasScheme(Http, url) /\ ~HasScheme(Https, url)
     /\ site # <<>> /\ Head(site) # Dot /\ Last(site) \in URL_LET_DIGIT /\ Dot \in Range(site)
     /\ Range(site) \intersect URL_UP_LET = {}
     /\ \A i \in 2..Len(site) : site[i] = Dot => site[i - 1] \in URL_LET_DIGIT
     /\ path # host => Len(port) <= 5 /\ atoi(port) \in PortNumber \ {80}
     /\ path <= Len(url) /\ url[path] = Slash
     /\ PathEnds(path, url, URL_PCHAR, URL_PARAM, URL_UCH_RES)[3] = Len(url) + 1
     /\ Len(url) < MAX_URL_LEN

\* The hash of the spelling, or of the URL as it is if it has none.
SignOf(url, normalized) ==
  [MurmurHash64A |-> IF normalized.ok THEN normalized.text ELSE Fit(MAX_URL_LEN, url)]
get_url_sign64(url) == SignOf(url, normalize_url(url, MAX_URL_LEN))
==============================================================================
