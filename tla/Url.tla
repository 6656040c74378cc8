-------------------------------- MODULE Url --------------------------------
(***************************************************************************)
(* URLs of http_client.c: parse_uri, resolve_rel_url and remove_dots, which *)
(* service tables (the URLs of a description), the web server (paths of    *)
(* requests) and urlconfig.cpp (aliases) rely on.                          *)
(*                                                                         *)
(* A URL is a sequence of characters, of which "h" stands for the letters  *)
(* and digits of schemes and hosts.  remove_dots works in place: its loop  *)
(* is the state machine, what it is given comes from one of its callers.   *)
(***************************************************************************)
EXTENDS Integers, Sequences, FiniteSets, SequencesExt

CONSTANTS BasePaths,  \* paths of base URLs
          MaxRel      \* characters of a relative path

(* Base paths are absolute. *)
PathChars == {"/", ".", "a"}
UrlAssumption ==
    /\ MaxRel \in Nat
    /\ \A p \in BasePaths : p \in Seq(PathChars) /\ (p # <<>> => p[1] = "/")

VARIABLES base, rel,         \* what the caller was given
          head,              \* scheme and host in front of the path
          in,                \* the path, modified in place
          copyFrom, copyTo,  \* indexes into it
          Segments,          \* where the segments begin; its length is lastSegment + 1
          result             \* "called", "running", or what is returned

urlVars == <<base, rel, head, in, copyFrom, copyTo, Segments, result>>

Letter == "h"
NameChars == {Letter, "a", "."}       \* what schemes and hosts are made of
Chars == NameChars \cup {"/", ":", "?"}
Query == <<"?", "a", "/", ".", ".">>
Strings(max) == UNION {[1..n -> PathChars] : n \in 0..max}

(* The references of a caller: what they are made of. *)
Uri(scheme, host, path, query) ==
    [scheme |-> scheme, host |-> host, path |-> path, query |-> query]
Spelled(u) ==
    (IF u.scheme THEN <<Letter, ":">> ELSE <<>>)
    \o (IF u.host THEN <<"/", "/", Letter>> ELSE <<>>) \o u.path \o u.query

RelativePath(u) ==
    /\ ~u.scheme /\ ~u.host /\ u.path \o u.query # <<>>
    /\ Head(u.path \o u.query) # "/"
Bases == {Uri(TRUE, TRUE, path, query) :
             path \in BasePaths, query \in {<<>>, Query}}
LocalRels == {Uri(FALSE, FALSE, path, query) : path \in Strings(MaxRel), query \in {<<>>, Query}}
HostedRels == {Uri(scheme, TRUE, path, <<>>) : scheme \in BOOLEAN, path \in {<<>>, <<"/", "a">>}}
Rels == LocalRels \cup HostedRels

-----------------------------------------------------------------------------
(* The first place from i on whose character is not among these. *)
Scan(s, i, chars) ==
    CHOOSE k \in i..(Len(s) + 1) :
        /\ k = Len(s) + 1 \/ s[k] \notin chars
        /\ \A j \in i..(k - 1) : s[j] \in chars

(* parse_scheme: characters of a scheme up to a colon, or none. *)
parse_scheme(s) ==
    LET k == Scan(s, 1, NameChars)
    IN  IF k > 1 /\ k <= Len(s) /\ s[1] \in {Letter, "a"} /\ s[k] = ":" THEN k - 1 ELSE 0

(* parse_uri; the host is known to gethostbyname.  "fragment" is left out. *)
parse_uri(s) ==
    LET scheme == parse_scheme(s)
        begin == IF scheme > 0 THEN scheme + 2 ELSE 1
        hosted == begin < Len(s) /\ s[begin] = "/" /\ s[begin + 1] = "/"
        path == IF hosted THEN Scan(s, begin + 2, NameChars)
                ELSE begin
        pathquery == SubSeq(s, path, Len(s))
    IN  [text      |-> s,
         type      |-> IF scheme > 0 THEN "ABSOLUTE" ELSE "RELATIVE",
         scheme    |-> SubSeq(s, 1, scheme),
         hostport  |-> IF hosted THEN SubSeq(s, begin + 2, path - 1) ELSE <<>>,
         pathquery |-> pathquery,
         path_type |-> IF pathquery # <<>> /\ Head(pathquery) = "/" THEN "ABS_PATH"
                       ELSE IF scheme > 0 THEN "OPAQUE_PART" ELSE "REL_PATH"]

(* The base's path up to its last slash, its query not looked at. *)
Directory(pathquery) ==
    LET p == IF pathquery = <<>> THEN <<"/">> ELSE pathquery
        path == SubSeq(p, 1, Scan(p, 1, Chars \ {"?"}) - 1)
        slashes == {i \in DOMAIN path : path[i] = "/"}
    IN  SubSeq(path, 1, Max({0} \cup slashes))

(* resolve_rel_url, b and r being the base and the relative URL as parsed: *)
(* what is in front, the path, and whether remove_dots is called for it.   *)
Resolved(hd, path, dots) == [head |-> hd, path |-> path, dots |-> dots]
SchemeAndHost(b) == b.scheme \o <<":">>
                \o IF b.hostport = <<>> THEN <<>> ELSE <<"/", "/">> \o b.hostport
resolve_rel_url(b, r) ==
    IF r.type = "ABSOLUTE" THEN Resolved(<<>>, r.text, FALSE)
    ELSE IF r.text = <<>> THEN Resolved(<<>>, b.text, FALSE)
    ELSE IF r.hostport # <<>> THEN Resolved(b.scheme \o <<":">>, r.text, FALSE)
    ELSE IF r.path_type = "ABS_PATH" THEN Resolved(SchemeAndHost(b), r.text, FALSE)
    ELSE Resolved(SchemeAndHost(b), Directory(b.pathquery) \o r.text, TRUE)

(* calc_alias: the alias below the path of the URL base. *)
calc_alias(rootPath, alias) ==
    (IF Last(rootPath) = "/" THEN rootPath ELSE Append(rootPath, "/"))
    \o (IF Head(alias) = "/" THEN Tail(alias) ELSE alias)

-----------------------------------------------------------------------------
UrlInit ==
    /\ base \in Bases /\ rel \in Rels
    /\ head = <<>> /\ in = <<>> /\ copyFrom = 1 /\ copyTo = 1 /\ Segments = <<>>
    /\ result = "called"

Start(u) ==
    /\ result = "called"
    /\ head' = u.head /\ in' = u.path
    /\ copyTo' = IF u.dots THEN 1 ELSE Len(u.path) + 1
    /\ result' = IF u.dots THEN "running" ELSE "success"
    /\ UNCHANGED <<base, rel, copyFrom, Segments>>

Resolve ==
    \E b \in {parse_uri(Spelled(base))}, r \in {parse_uri(Spelled(rel))} :
        \E u \in {resolve_rel_url(b, r)} : Start(u)

Configure ==
    /\ base.path # <<>> /\ base.query = <<>>
    /\ rel.path # <<>> /\ ~rel.host /\ rel.query = <<>>
    /\ Start(Resolved(<<"alias">>, calc_alias(base.path, rel.path), TRUE))

Running == result = "running" /\ copyFrom <= Len(in) /\ in[copyFrom] \notin {"?", "#"}
CharAt(i) == IF i \in DOMAIN in THEN in[i] ELSE "/"     \* the end ends a segment too

Dot == in[copyFrom] = "." /\ (copyFrom > 1 => in[copyFrom - 1] = "/")
OneDot == Dot /\ CharAt(copyFrom + 1) = "/"
TwoDots == Dot /\ CharAt(copyFrom + 1) = "." /\ CharAt(copyFrom + 2) = "/"

SkipDot ==
    /\ Running /\ OneDot
    /\ copyFrom' = copyFrom + 2
    /\ UNCHANGED <<base, rel, head, in, copyTo, Segments, result>>

(* Mutant: the segment that ".." takes back is kept on the stack. *)
BackKept == Segments

(* ".." takes the segment before it back, but not the root. *)
Back == Front(Segments)
SkipTwoDots ==
    /\ Running /\ TwoDots
    /\ copyFrom' = copyFrom + 3
    /\ IF Len(Segments) > 1
       THEN Segments' = Back /\ copyTo' = Last(Back) /\ UNCHANGED result
       ELSE result' = "invalid" /\ UNCHANGED <<Segments, copyTo>>
    /\ UNCHANGED <<base, rel, head, in>>

CopyChar ==
    /\ Running /\ ~OneDot /\ ~TwoDots
    /\ in' = [in EXCEPT ![copyTo] = in[copyFrom]]
    /\ Segments' = IF in[copyFrom] = "/" THEN Append(Segments, copyTo + 1) ELSE Segments
    /\ copyTo' = copyTo + 1 /\ copyFrom' = copyFrom + 1
    /\ UNCHANGED <<base, rel, head, result>>

(* The query is copied as it is. *)
CopyRest ==
    /\ result = "running" /\ ~Running
    /\ LET rest == SubSeq(in, copyFrom, Len(in))
       IN  /\ in' = [i \in DOMAIN in |-> IF i \in copyTo..(copyTo + Len(rest) - 1)
                                         THEN rest[i - copyTo + 1] ELSE in[i]]
           /\ copyTo' = copyTo + Len(rest)
    /\ result' = "success"
    /\ UNCHANGED <<base, rel, head, copyFrom, Segments>>

UrlNext == Resolve \/ Configure \/ SkipDot \/ SkipTwoDots \/ CopyChar \/ CopyRest

UrlSpec == UrlInit /\ [][UrlNext]_urlVars

-----------------------------------------------------------------------------
(* RFC 2396, 5.2 steps 6c to 6g, on segments: what the code should compute. *)
PartStep(ss, c) ==
    IF c = "/" THEN Append(ss, <<>>) ELSE [ss EXCEPT ![Len(ss)] = Append(@, c)]
PathParts(path) == FoldLeft(PartStep, <<>>, path)
DotParts == {<<".">>, <<".", ".">>}
DotStep(r, s) ==
    IF s = <<".">> THEN r
    ELSE IF s # <<".", ".">> THEN [r EXCEPT !.out = Append(@, s)]
    ELSE IF r.out = <<>> THEN [r EXCEPT !.ok = FALSE]
    ELSE [r EXCEPT !.out = Front(@)]
Slashed(parts) == FlattenSeq([i \in DOMAIN parts |-> <<"/">> \o parts[i]])
Dotless(ss) ==
    LET r == FoldLeft(DotStep, [ok |-> TRUE, out |-> <<>>], ss)
    IN  [ok |-> r.ok, path |-> Slashed(IF Last(ss) \in DotParts THEN Append(r.out, <<>>) ELSE r.out)]

Merged == IF head = <<"alias">> THEN calc_alias(base.path, rel.path)
          ELSE Directory(base.path) \o rel.path
AsItIs(url) == [ok |-> TRUE, url |-> url]
Hosted == <<Letter, ":", "/", "/", Letter>>
Expected ==
    CASE head = <<"alias">> \/ RelativePath(rel) ->
           LET d == Dotless(PathParts(Merged))
           IN  [ok |-> d.ok, url |-> head \o d.path \o rel.query]
      [] rel.scheme -> AsItIs(Spelled(rel))
      [] ~rel.scheme /\ rel.host -> AsItIs(<<Letter, ":">> \o Spelled(rel))
      [] OTHER -> AsItIs(IF Spelled(rel) = <<>> THEN Spelled(base) ELSE Hosted \o Spelled(rel))

(* A "." or ".." right before the query is not taken for a segment, a path *)
(* that begins with two slashes reads as a host, and a base without a path *)
(* gets its "/" only if it has no query either.                            *)
Plain ==
    /\ base.path = <<>> => base.query = <<>>
    /\ rel.query # <<>> => (rel.path = <<>> \/ Last(rel.path) # ".")
    /\ ~rel.host /\ Len(rel.path) > 1 => SubSeq(rel.path, 1, 2) # <<"/", "/">>

(* A relative URL is resolved as RFC 2396 says, and refused exactly when   *)
(* it would climb above the root (resolve_rel_url, calc_alias and          *)
(* remove_dots, which works in place).  This is the RFC that the comment   *)
(* of resolve_rel_url refers to and what remove_dots documents; the same   *)
(* comment says of '..' that its resolution "is NOT implemented"           *)
(* (http_client.c:1182), which the code contradicts: resolve_rel_url calls *)
(* remove_dots, and '..' is resolved.                                      *)
UrlResolved ==
    result \in {"success", "invalid"} /\ Plain => \A e \in {Expected} :
        /\ result = "success" <=> e.ok
        /\ result = "success" => head \o SubSeq(in, 1, copyTo - 1) = e.url
=============================================================================
