----------------------------- MODULE PageLinks ------------------------------
(***************************************************************************)
(* How a URL travels: a page holds a link, written in one of many ways;    *)
(* getLinks resolves and normalizes it; the dumper files it under its      *)
(* signature and main domain; it is crawled under the URL so stored, and   *)
(* its own page is the next to hold links.                                 *)
(*                                                                         *)
(* A behaviour writes a link piece by piece, in two spellings of the same  *)
(* resource at a time (href and twin), and may then follow it.  Everything *)
(* the program computes from a link is an operator, and the properties     *)
(* compare what it computes for the links so reached.                      *)
(***************************************************************************)
EXTENDS DomainTools

CONSTANTS
  Seeds,      \* URLs handed to the crawl service
  Starts,     \* pairs of spellings of what a link may begin with
  Pieces,     \* pairs of spellings of what a path may go on with
  Tails,      \* what may follow where two spellings are one no more
  MaxPieces   \* bound on the pieces written in a behaviour

ASSUME LinkAssumption ==
  /\ Seeds \subseteq Seq(Char) /\ Tails \subseteq Seq(Char)
  /\ Starts \union Pieces \subseteq Seq(Char) \X Seq(Char)
  /\ MaxPieces \in Nat

VARIABLES
  page,     \* the URL under which the page is crawled: UrlContext::url
  href,     \* a link on it,
  twin,     \* another spelling of that link,
  pieces    \* and the pieces written so far

linkVars == <<page, href, twin, pieces>>

(***************************************************************************)
(* The code.                                                               *)
(***************************************************************************)
Blank == {Space, 9, 10, 13}
rtrim(s) == Strip(Blank, s)
ltrim(s) == Drop(Skip(1, Blank, s) - 1, s)
Trim(s)  == ltrim(rtrim(s))

Holds(s, part) == \E i \in 0..Len(s) - Len(part) : SubSeq(s, i + 1, i + Len(part)) = part

SchemeMark == <<Colon, Slash, Slash>>
HttpPrefix == Take(4, Http)
Javascript == Codes("javascript")
Mailto     == Codes("mailto")

\* UrlContext::parseUrl fills the host a relative link is resolved against.  A URL
\* that it cannot split is not crawled.
parseUrl(url) == parse_url(url, TRUE)
Host(url)     == parseUrl(url).site

\* The URL a seed or a link is crawled under: its normal spelling if it has one.
WithScheme(url, normal) == IF normal.ok THEN Http \o normal.text ELSE url
Spelled(url) == WithScheme(url, normalize_url(url, MAX_URL_LEN))

Ignored(link) ==
  \/ link = <<>> \/ link = <<Slash>> \/ Head(link) = Hash
  \/ Holds(link, Javascript) \/ Holds(link, Mailto)

Resolved_NoSlash(host, link) ==
  IF Holds(link, SchemeMark) THEN link ELSE Http \o host \o link
Resolved(host, link) ==
  IF Holds(link, SchemeMark) THEN link
  ELSE IF Head(link) = Slash THEN Http \o host \o link
  ELSE Http \o host \o <<Slash>> \o link

\* The link of a page that getLinks keeps of an attribute, if it does.
Kept(from, url) == IF Len(url) >= MAX_URL_LEN - 1 \/ url = from THEN {} ELSE {url}
getLinks(from, attribute) ==
  LET link == Trim(attribute)
  IN IF Ignored(link) \/ (Holds(link, SchemeMark) /\ ~IsPrefix(HttpPrefix, link))
     THEN {} ELSE Kept(from, Spelled(Resolved(Host(from), link)))

\* The row dumpOneLink inserts for a link, none if it has no main domain.
LinkRow(url, domain) ==
  IF domain.ok THEN {[sign |-> get_url_sign64(url), maindomain |-> domain.text]} ELSE {}
dumpOneLink(url) == LinkRow(url, fetch_url_maindomain(url))

\* The URL that doWithRedirect makes of the location of a redirect.  It is asked for as
\* it stands, and what comes belongs to the page that redirected.
RedirectUrl(host, location) ==
  IF location # <<>> /\ ~Holds(location, SchemeMark)
  THEN Http \o host \o <<Slash>> \o location ELSE location

(***************************************************************************)
(* Behaviours.                                                             *)
(***************************************************************************)
Begin == \E start \in Starts : href' = start[1] /\ twin' = start[2]

\* CrawlListenHandler::request makes the first page of a seed.
request(seed) == [url |-> Spelled(seed), sign |-> get_url_sign64(seed)]

LinkInit ==
  /\ page \in {url \in {request(seed).url : seed \in Seeds} : parseUrl(url).ok}
  /\ \E start \in Starts : href = start[1] /\ twin = start[2]
  /\ pieces = 0

InPath == {Question, Semicolon, Hash} \intersect (Range(href) \union Range(twin)) = {}

\* The link goes on, in the path with one of two equal spellings.
Write ==
  /\ pieces < MaxPieces
  /\ pieces' = pieces + 1
  /\ \/ InPath /\ \E piece \in Pieces : href' = href \o piece[1] /\ twin' = twin \o piece[2]
     \/ \E tail \in Tails : href' = href \o tail /\ twin' = twin \o tail
  /\ UNCHANGED page

\* The link is kept, filed, and in its turn crawled.
Follow ==
  /\ pieces < MaxPieces
  /\ page' \in {url \in getLinks(page, href) : dumpOneLink(url) # {} /\ parseUrl(url).ok}
  /\ Begin
  /\ pieces' = pieces + 1

LinkNext == Write \/ Follow
LinkSpec == LinkInit /\ [][LinkNext]_linkVars

(***************************************************************************)
(* Properties.                                                             *)
(***************************************************************************)
\* The URL a link stands for.
Target(link) == Resolved(Host(page), Trim(link))
Normal(url)  == normalize_url(url, MAX_URL_LEN)

\* Every percent sign begins an escape.
WellFormed(url) ==
  \A i \in 1..Len(url) :
    url[i] = Percent => i + 2 <= Len(url) /\ to_char(url[i + 1], url[i + 2]) # 0

\* There is a spelling, and with its scheme it fits the buffers it passes through.
Room(normal) == normal.ok /\ Len(normal.text) + Len(Http) < MAX_URL_LEN
Fits(url)    == Room(Normal(url))

MeantWell(url) == Fits(url) /\ WellFormed(url)
Asked(link)    == Trim(link) # <<>> /\ MeantWell(Target(link))

\* What normalize_url returns passes isnormalized_url, even a spelling that the
\* buffer cut short.
NormalizedIsNormal ==
  Trim(href) # <<>> =>
    \A normal \in {Normal(Target(href))} : normal.ok => isnormalized_url(normal.text)

\* The spelling has the sign of the URL it was made of: the row a seed or a link
\* is filed under is the row its crawl state is updated in.
SignsAreStable ==
  Asked(href) =>
    \A url \in {Target(href)} : get_url_sign64(Spelled(url)) = get_url_sign64(url)

\* Two spellings of a resource are one row of the link table.
SpellingsAgree ==
  Asked(href) /\ Asked(twin) => get_url_sign64(Target(twin)) = get_url_sign64(Target(href))

\* What is requested of the page's host for a location that is only a path is that
\* path.  It is not: doWithRedirect puts a slash in front of one that begins with a
\* slash, and the URL of a redirect is not normalized.
RedirectAsksForThePath ==
  LET location == Trim(href)
      asked    == parseUrl(RedirectUrl(Host(page), location))
      isPath   == location # <<>> /\ Head(location) = Slash /\ ~Holds(location, SchemeMark)
  IN isPath /\ asked.ok => asked.path = location

\* A path resolved segment by segment: none is empty, "." or "..", and ".." at
\* the root stays there.
Here == {<<>>, <<Dot>>}
Up   == <<Dot, Dot>>
Enter(stack, segment) ==
  IF segment \in Here THEN stack
  ELSE IF segment # Up THEN Append(stack, segment)
  ELSE IF stack = <<>> THEN stack ELSE Front(stack)
Entered(segments) ==
  LET stack[i \in 0..Len(segments)] ==
        IF i = 0 THEN <<>> ELSE Enter(stack[i - 1], segments[i])
  IN stack[Len(segments)]
Rooted(stack) == Replace(LAMBDA s : <<Slash>> \o s, stack)
ResolvedPath(path) ==
  LET segments == Split(Slash, Tail(path))
      stack    == Entered(segments)
      open     == stack = <<>> \/ Last(segments) \in Here \union {Up}
  IN Rooted(stack) \o IF open THEN <<Slash>> ELSE <<>>

\* The loop over characters in normalize_path resolves the path as that does, and
\* leaves parameters and query alone.
PathIsResolved ==
  Asked(href) =>
    LET path == single_path_nointer(parse_url(Target(href), TRUE).path)
        body == replace_slash(path.text)
        query == QueryStart(body)
    IN normalize_path(path.text) = ResolvedPath(Take(query - 1, body)) \o Drop(query - 1, body)

\* A relative link, whatever is written in it, is filed under the main domain of
\* its page, so that the selector that chose the page can choose it too.  (A page
\* without a normal spelling, with a port like 80x, is filed under its host as it is
\* written, capitals and all; its links are not.)
RelativeLinksStayHome ==
  Asked(href) /\ Normal(page).ok /\ ~Holds(Trim(href), SchemeMark) =>
    \A url \in getLinks(page, href) :
      fetch_url_maindomain(url) = fetch_url_maindomain(page)

\* The suffixes of all tables, and the longest of them that a site is longer than.
Suffixes_ ==
  LET d == load_default
  IN {<<top>> : top \in d.top_domain \union d.top_country}
     \union d.country_domain_map \union (d.general_2nd_domain \X d.top_country)
LongestSuffix(labels) ==
  Max({0} \union {n \in 1..Len(labels) - 1 : LastLabels(n, labels) \in Suffixes_})

\* The main domain of a kept link is what follows from the tables alone, whatever
\* order they are searched in: one label more than the longest suffix.
MainDomainIsRegistered ==
  Asked(href) =>
    \A url \in getLinks(page, href) :
      LET labels == Labels(Host(url))
          longest == LongestSuffix(labels)
      IN ~guess_is_dotip2(labels) =>
           fetch_url_maindomain(url) =
             IF longest > 0 THEN Text(Site(LastLabels(longest + 1, labels)))
             ELSE IF Len(labels) > 2 THEN Text(Site(LastLabels(2, labels))) ELSE Failed

==============================================================================
