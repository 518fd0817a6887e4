---------------------------- MODULE DomainTools ----------------------------
(***************************************************************************)
(* The main domain of a site, as url_tools.cpp finds it: the suffix under  *)
(* which the registry sells names, and the one name before it.  The        *)
(* selector asks the link table for the main domains the operator lists,   *)
(* so a URL filed under a wrong one is never crawled.                      *)
(*                                                                         *)
(* The source keeps each suffix as a reversed string that begins at a dot, *)
(* and matches it against the end of a site.  Here a site is the sequence  *)
(* of its labels, and a suffix of one or two labels is compared with its   *)
(* last one or two.                                                        *)
(***************************************************************************)
EXTENDS UrlTools

top_domain ==
  {"aero", "asia", "biz", "cat", "com", "coop", "edu", "gov", "info", "int",
   "jobs", "mil", "mobi", "museum", "name", "net", "org", "pro", "tel",
   "travel", "xxx"}

top_country ==
  {"ac", "ad", "ae", "af", "ag", "ai", "al", "am", "an", "ao", "aq", "ar",
   "as", "at", "au", "aw", "ax", "az", "ba", "bb", "bd", "be", "bf", "bg",
   "bh", "bi", "bj", "bm", "bn", "bo", "br", "bs", "bt", "bv", "bw", "by",
   "bz", "ca", "cc", "cd", "cf", "cg", "ch", "ci", "ck", "cl", "cm", "cn",
   "co", "cr", "cu", "cv", "cx", "cy", "cz", "de", "dj", "dk", "dm", "do",
   "dz", "ec", "ee", "eg", "eh", "er", "es", "et", "eu", "fi", "fj", "fk",
   "fm", "fo", "fr", "ga", "gb", "gd", "ge", "gf", "gg", "gh", "gi", "gl",
   "gm", "gn", "gp", "gq", "gr", "gs", "gt", "gu", "gw", "gy", "hk", "hm",
   "hn", "hr", "ht", "hu", "id", "ie", "il", "im", "in", "io", "iq", "ir",
   "is", "it", "je", "jm", "jo", "jp", "ke", "kg", "kh", "ki", "km", "kn",
   "kp", "kr", "kw", "ky", "kz", "la", "lb", "lc", "li", "lk", "lr", "ls",
   "lt", "lu", "lv", "ly", "ma", "mc", "md", "me", "mg", "mh", "mk", "ml",
   "mm", "mn", "mo", "mp", "mq", "mr", "ms", "mt", "mu", "mv", "mw", "mx",
   "my", "mz", "na", "nc", "ne", "nf", "ng", "ni", "nl", "no", "np", "nr",
   "nu", "nz", "om", "pa", "pe", "pf", "pg", "ph", "pk", "pl", "pm", "pn",
   "pr", "ps", "pt", "pw", "py", "qa", "re", "ro", "rs", "ru", "rw", "sa",
   "sb", "sc", "sd", "se", "sg", "sh", "si", "sj", "sk", "sl", "sm", "sn",
   "so", "sr", "st", "su", "sv", "sy", "sz", "tc", "td", "tf", "tg", "th",
   "tj", "tk", "tl", "tm", "tn", "to", "tp", "tr", "tt", "tv", "tw", "tz",
   "ua", "ug", "uk", "um", "us", "uy", "uz", "va", "vc", "ve", "vg", "vi",
   "vn", "vu", "wf", "ws", "ye", "yt", "yu", "yr", "za", "zm", "zw"}

general_2nd_domain ==
  {"com", "net", "org", "gov", "edu", "co"}

cn_domain ==
  {"ac", "com", "edu", "gov", "net", "org", "ah", "bj", "cq", "fj", "gd",
   "gs", "gz", "gx", "ha", "hb", "he", "hi", "hk", "hl", "hn", "jl", "js",
   "jx", "ln", "nm", "nx", "qh", "sc", "sd", "sh", "sn", "sx", "tj", "tw",
   "xj", "xz", "yn", "zj"}
tw_domain ==
  {"edu", "gov", "mil", "com", "net", "org", "idv", "game", "ebiz", "club"}
hk_domain ==
  {"com", "edu", "gov", "idv", "net", "org"}
uk_domain ==
  {"ac", "co", "gov", "ltd", "me", "mod", "net", "nhs", "nic", "org",
   "parliament", "plc", "sch"}
jp_domain ==
  {"ad", "co", "ed", "go", "gr", "lg", "ne", "or"}
kr_domain ==
  {"co", "ne", "or", "re", "pe", "go", "mil", "ac", "hs", "ms", "es", "sc",
   "kg", "seoul", "busan", "daegu", "incheon", "gwangju", "daejeon", "ulsan",
   "gyeonggi", "gangwon", "chungbuk", "chungnam", "jeonbuk", "jeonnam",
   "gyeongbuk", "gyeongnam", "jeju"}
il_domain ==
  {"ac", "co", "org", "net", "k12", "gov", "muni", "idf"}
nz_domain ==
  {"ac", "co", "geek", "gen", "maori", "net", "org", "cri", "govt", "iwi",
   "parliament", "mil"}
th_domain ==
  {"in", "co"}

\* The second levels a country sells names under, for the countries that list them.
domain_map == [cn |-> cn_domain, tw |-> tw_domain, hk |-> hk_domain, uk |-> uk_domain,
               jp |-> jp_domain, kr |-> kr_domain, il |-> il_domain, nz |-> nz_domain,
               th |-> th_domain]

\* The tables as codes: single labels, and pairs of a second and a top level.
load_default ==
  LET labels(table) == {Codes(label) : label \in table}
  IN [top_domain |-> labels(top_domain),
      top_country |-> labels(top_country),
      general_2nd_domain |-> labels(general_2nd_domain),
      country_domain_map |-> UNION {labels(domain_map[country]) \X {Codes(country)} :
                                      country \in DOMAIN domain_map}]

\* A second level is listed under a country, and no other top level is one.
ASSUME TableAssumption ==
  /\ \A pair \in load_default.country_domain_map :
       pair = <<pair[1], pair[2]>> /\ pair[2] \in load_default.top_country
  /\ load_default.top_domain \intersect load_default.top_country = {}

\* The parts of s between the characters c.
NextPart(c, parts, d) ==
  IF d = c THEN Append(parts, <<>>) ELSE Append(Front(parts), Append(Last(parts), d))
Split(c, s) ==
  LET parts[i \in 0..Len(s)] ==
        IF i = 0 THEN << <<>> >> ELSE NextPart(c, parts[i - 1], s[i])
  IN parts[Len(s)]

Labels(site) == Split(Dot, site)
Site(labels) == Tail(Replace(LAMBDA label : <<Dot>> \o label, labels))

\* The last labels, all if there are no more.
LastLabels(n, labels) == IF n < Len(labels) THEN Drop(Len(labels) - n, labels) ELSE labels

guess_is_dotip2(labels) ==
  Len(labels) = 4 /\ \A i \in 1..4 : Range(labels[i]) \subseteq URL_DIGIT

\* How many of the last labels are a suffix of the tables: none, one or two.
InCountry_Listed(dict, labels) ==
  Len(labels) >= 3 /\ LastLabels(2, labels) \in dict.country_domain_map
InCountry(dict, labels) ==
  LET n == Len(labels)
  IN /\ n >= 3
     /\ \/ <<labels[n - 1], labels[n]>> \in dict.country_domain_map
        \/ labels[n] \in dict.top_country /\ labels[n - 1] \in dict.general_2nd_domain

SuffixLength(dict, labels) ==
  IF Len(labels) = 1 THEN 0
  ELSE IF Last(labels) \in dict.top_domain THEN 1
  ELSE IF InCountry(dict, labels) THEN 2
  ELSE IF Last(labels) \in dict.top_country THEN 1 ELSE 0

\* A site under no known suffix keeps its last two labels, if it has more.
get_last_two_parts(labels) == IF Len(labels) < 3 THEN <<>> ELSE LastLabels(2, labels)

get_domain_from_site(dict, labels) ==
  LET n == SuffixLength(dict, labels)
  IN IF n = 0 THEN get_last_two_parts(labels) ELSE LastLabels(n + 1, labels)

DomainText(domain) ==
  IF domain = <<>> THEN Failed
  ELSE Text(LET text == Site(domain) IN Drop(Skip(1, {Dot}, text) - 1, text))
fetch_trunk_and_domain(dict, site) ==
  LET labels == Labels(site)
  IN IF guess_is_dotip2(labels) THEN Text(site)
     ELSE DomainText(get_domain_from_site(dict, labels))

fetch_maindomain(site) == fetch_trunk_and_domain(load_default, site)

DomainOf(parts) == IF parts.ok THEN fetch_maindomain(parts.site) ELSE Failed
fetch_url_maindomain(url) == DomainOf(parse_url(url, FALSE))
==============================================================================
