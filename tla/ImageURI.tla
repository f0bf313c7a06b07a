------------------------------ MODULE ImageURI ------------------------------
(***************************************************************************)
(* The image reference helpers of the Go package image (src/unnamed/      *)
(* part_002, lines 21-112): URIFromString parses "host/name:tag", String   *)
(* and StringNoTag format a URI after setDefaults has filled in the        *)
(* default host and tag.                                                   *)
(*                                                                         *)
(* A string is a sequence of characters over a small alphabet that holds  *)
(* the two separators "/" and ":".  The state is what a caller holds: the *)
(* last input it parsed, the result, the *URI it keeps and the last        *)
(* string it formatted from it.  Every input of length at most MaxLen is  *)
(* an initial state, so every invariant is checked on every such input.   *)
(***************************************************************************)
EXTENDS Naturals, Sequences, FiniteSets

CONSTANTS Chars, MaxLen

Slash == "/"
Colon == ":"

ASSUME URIAssumption == /\ {Slash, Colon} \subseteq Chars
                        /\ MaxLen \in Nat

VARIABLES raw, parsed, uri, out, fmt

vars == <<raw, parsed, uri, out, fmt>>

Inputs == UNION {[1..n -> Chars] : n \in 0..MaxLen}

\* The default host "docker.io/library" (it holds a slash) and tag "latest".
DefaultHost == <<"d", Slash, "l">>
DefaultTag  == <<"t">>

\* type URI struct { Host, Name, Tag string }; the nil pointer is NoURI.
NoURI == [host |-> <<>>, name |-> <<>>, tag |-> <<>>, nil |-> TRUE]
MkURI(h, n, t) == [host |-> h, name |-> n, tag |-> t, nil |-> FALSE]

\* EmptyError, InvalidURIError, MultiColonRegistryURIError, or no error.
Errs == {"none", "empty", "invalid", "multicolon"}

PartCountAfterSplitByColon == 2

Positions(s, c) == {i \in 1..Len(s) : s[i] = c}
Contains(s, c) == Positions(s, c) # {}

\* strings.Split(s, sep): the Cardinality(Positions)+1 pieces between the
\* separators; the j-th separator is the one with j separators up to it.
Split(s, c) ==
  LET P == Positions(s, c)
      k == Cardinality(P)
      Cut(j) == IF j = 0 THEN 0
                ELSE IF j = k + 1 THEN Len(s) + 1
                ELSE CHOOSE i \in P : Cardinality({x \in P : x <= i}) = j
  IN [j \in 1..k + 1 |-> SubSeq(s, Cut(j - 1) + 1, Cut(j) - 1)]

\* util.JoinV(sep, parts...): the parts with sep between them.
JoinV(c, parts) ==
  LET J[k \in 0..Len(parts)] ==
        IF k = 0 THEN <<>>
        ELSE IF k = 1 THEN parts[1]
        ELSE J[k - 1] \o <<c>> \o parts[k]
  IN J[Len(parts)]

Error(e) == [err |-> e, uri |-> NoURI]

\* A plausible bug: the "/" branch is missing, the whole repository part
\* becomes the name.
URIFromStringNoPath(imageName) ==
  LET nameArr == Split(imageName, Colon)
  IN IF imageName = <<>> THEN Error("empty")
     ELSE IF Len(nameArr) = 1 THEN Error("invalid")
     ELSE IF Len(nameArr) > PartCountAfterSplitByColon THEN Error("multicolon")
     ELSE [err |-> "none", uri |-> MkURI(<<>>, nameArr[1], nameArr[2])]

\* A plausible bug: the no-colon check is missing; the tag stays "".
URIFromStringNoTagCheck(imageName) ==
  LET nameArr == Split(imageName, Colon)
      repoArr == Split(nameArr[1], Slash)
      tag == IF Len(nameArr) = 2 THEN nameArr[2] ELSE <<>>
  IN IF imageName = <<>> THEN Error("empty")
     ELSE IF Len(nameArr) > PartCountAfterSplitByColon THEN Error("multicolon")
     ELSE IF Contains(nameArr[1], Slash) THEN
       [err |-> "none",
        uri |-> MkURI(JoinV(Slash, SubSeq(repoArr, 1, Len(repoArr) - 1)),
                      repoArr[Len(repoArr)], tag)]
     ELSE [err |-> "none", uri |-> MkURI(<<>>, nameArr[1], tag)]

\* URIFromString: the error checks in the code's order (each an early
\* return, so a chain of IF, not an unordered CASE), then the last path
\* segment of the part before the colon is the name, the rest the host.
URIFromString(imageName) ==
  LET nameArr == Split(imageName, Colon)
      repoArr == Split(nameArr[1], Slash)
  IN IF imageName = <<>> THEN Error("empty")
     ELSE IF Len(nameArr) = 1 THEN Error("invalid")
     ELSE IF Len(nameArr) > PartCountAfterSplitByColon THEN Error("multicolon")
     ELSE IF Contains(nameArr[1], Slash) THEN
       [err |-> "none",
        uri |-> MkURI(JoinV(Slash, SubSeq(repoArr, 1, Len(repoArr) - 1)),
                      repoArr[Len(repoArr)], nameArr[2])]
     ELSE [err |-> "none", uri |-> MkURI(<<>>, nameArr[1], nameArr[2])]

\* A plausible bug: the host is always replaced by the default.
setDefaultsAlways(image) ==
  [image EXCEPT !.host = DefaultHost,
                !.tag = IF image.tag = <<>> THEN DefaultTag ELSE image.tag]

\* setDefaults writes the defaults into the URI it is given.
setDefaults(image) ==
  [image EXCEPT !.host = IF image.host = <<>> THEN DefaultHost ELSE image.host,
                !.tag = IF image.tag = <<>> THEN DefaultTag ELSE image.tag]

\* fmt.Sprintf("%s/%s", Host, Name+":"+Tag) and ("%s/%s", Host, Name).
String(image) == image.host \o <<Slash>> \o image.name \o <<Colon>> \o image.tag
StringNoTag(image) == image.host \o <<Slash>> \o image.name

(***************************************************************************)
(* The calls a caller makes.                                               *)
(***************************************************************************)
\* image, err := URIFromString(s)
CallURIFromString ==
  \E s \in Inputs :
    /\ raw' = s
    /\ parsed' = URIFromString(s)
    /\ uri' = parsed'.uri
    /\ out' = <<>>
    /\ fmt' = "none"

\* image.String(): setDefaults(image) on the receiver, then format it.
CallString ==
  /\ ~uri.nil
  /\ uri' = setDefaults(uri)
  /\ out' = String(uri')
  /\ fmt' = "tag"
  /\ UNCHANGED <<raw, parsed>>

\* image.StringNoTag(): the same without the tag.
CallStringNoTag ==
  /\ ~uri.nil
  /\ uri' = setDefaults(uri)
  /\ out' = StringNoTag(uri')
  /\ fmt' = "notag"
  /\ UNCHANGED <<raw, parsed>>

Init ==
  \E s \in Inputs :
    /\ raw = s
    /\ parsed = URIFromString(s)
    /\ uri = parsed.uri
    /\ out = <<>>
    /\ fmt = "none"

Next == CallURIFromString \/ CallString \/ CallStringNoTag

Spec == Init /\ [][Next]_vars

(***************************************************************************)
(* Properties.                                                             *)
(***************************************************************************)
ColonCount(s) == Cardinality(Positions(s, Colon))

\* Shape of every value: a parse result is an error without a URI or a URI
\* without an error, and a parsed name never holds a separator, a host or a
\* tag never a colon (URIFromString splits on both before it assigns them).
TypeOK ==
  /\ raw \in Inputs
  /\ parsed.err \in Errs
  /\ (parsed.err = "none") = ~parsed.uri.nil
  /\ uri.nil = parsed.uri.nil
  /\ uri.name \in Seq(Chars \ {Slash, Colon})
  /\ uri.host \in Seq((Chars \cup {"d", "l"}) \ {Colon})
  /\ uri.tag \in Seq((Chars \cup {"t"}) \ {Colon})
  /\ out \in Seq(Chars \cup {"d", "l", "t"})
  /\ fmt \in {"none", "tag", "notag"}

\* URIFromString classifies its input by the number of colons alone: empty,
\* no colon, more than one (part_002:63-77).  It counts every colon, so a
\* registry with a port ("h:5000/n:t") is a multicolon error, where spec.md
\* 4.1 counts only the colons after the last "/".
ParseErrors ==
  /\ (parsed.err = "empty") = (raw = <<>>)
  /\ (parsed.err = "invalid") = (raw # <<>> /\ ColonCount(raw) = 0)
  /\ (parsed.err = "multicolon") = (ColonCount(raw) > 1)

\* A successful parse leaves no "/" in the name: the name is the last
\* segment of the part before the colon.
NameWithoutSlash == parsed.err = "none" => ~Contains(parsed.uri.name, Slash)

\* A successful result put back together (with or without its "host/") is
\* the input.
Reassembles ==
  parsed.err = "none" =>
    LET u == parsed.uri
    IN raw \in {u.name \o <<Colon>> \o u.tag,
                u.host \o <<Slash>> \o u.name \o <<Colon>> \o u.tag}

\* What String, StringNoTag and the callers of URIFromString rely on, as
\* the code does it: the error is determined by the number of colons, and
\* a successful result put back together (with or without its "host/") is
\* the input, with no "/" left in the name.
ParseCorrect == ParseErrors /\ NameWithoutSlash /\ Reassembles

\* "repo/name:tag" with all three parts non-empty, one colon, no "/" after it.
ValidRepoNameTag(s) ==
  LET S == Positions(s, Slash)
  IN /\ ColonCount(s) = 1
     /\ \E i \in S : i > 1
     /\ LET j == CHOOSE p \in Positions(s, Colon) : TRUE
            i == CHOOSE x \in S : \A y \in S : y <= x
        IN i < j /\ j > i + 1 /\ j < Len(s)

\* spec.md 8: parse then String reproduces a valid "repo/name:tag", parse
\* then StringNoTag reproduces it without ":tag", however often the caller
\* formats the URI it holds.
RoundTrip ==
  ValidRepoNameTag(raw) =>
    /\ fmt = "tag" => out = raw
    /\ fmt = "notag" =>
         out = SubSeq(raw, 1, (CHOOSE p \in Positions(raw, Colon) : TRUE) - 1)

\* spec.md 3: a parsed reference never has an empty name.
NameNonEmpty == parsed.err = "none" => parsed.uri.name # <<>>

\* spec.md 3 and 4.1: formatting never mutates the URI; the value a caller
\* holds after String() or StringNoTag() is the one URIFromString returned.
FormatPure == uri = parsed.uri

==============================================================================
