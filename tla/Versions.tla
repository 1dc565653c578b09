------------------------------- MODULE Versions -------------------------------
(* How the matcher compares and reads versions (matcher_rpmver.go and           *)
(* matcher_debianver.go in internal/services/matchers, and the comparison of    *)
(* kernel names in internal/api/v1/hosts/kernel_posture.go).  A text is the     *)
(* sequence of its characters' ASCII codes, without blanks around it.           *)
EXTENDS Integers, Sequences, SequencesExt, FiniteSetsExt

CONSTANT DebianArches       \* the texts that isDebianArch accepts

Plus == 43
Dash == 45
Dot == 46
Colon == 58
Tilde == 126

IsDigit(c) == c \in 48..57
IsLetter(c) == c \in 65..90 \/ c \in 97..122
IsAlnum(c) == IsDigit(c) \/ IsLetter(c)

From(s, i) == SubSeq(s, i, Len(s))
Upto(s, i) == SubSeq(s, 1, i)

Sign(a, b) == IF a < b THEN -1 ELSE IF a > b THEN 1 ELSE 0

\* Go's order of strings.
CompareBytes(l, r) ==
    LET differ == {i \in 1..Min({Len(l), Len(r)}) : l[i] # r[i]}
    IN  IF differ = {} THEN Sign(Len(l), Len(r)) ELSE Sign(l[Min(differ)], r[Min(differ)])

\* The length of the longest prefix whose characters pass the test.
PrefixLen(s, Test(_)) ==
    LET stop == SelectInSeq(s, LAMBDA c : ~Test(c))
    IN  IF stop = 0 THEN Len(s) ELSE stop - 1

IndexOf(s, c) == SelectInSeq(s, LAMBDA d : d = c)
LastIndexOf(s, c) == SelectLastInSeq(s, LAMBDA d : d = c)

TrimZeros(s) == From(s, 1 + PrefixLen(s, LAMBDA c : c = 48))

CompareNumerals(l, r) ==
    LET a == TrimZeros(l)
        b == TrimZeros(r)
    IN  IF Len(a) # Len(b) THEN Sign(Len(a), Len(b)) ELSE CompareBytes(a, b)

-----------------------------------------------------------------------------
(* RPM.                                                                         *)

TrimNonAlnum(s) == From(s, 1 + PrefixLen(s, LAMBDA c : ~IsAlnum(c)))

\* The segment that a text starts with: digits, or letters.
NextSegment(s) ==
    LET numeric == IsDigit(s[1])
        n == PrefixLen(s, LAMBDA c : IsAlnum(c) /\ IsDigit(c) = numeric)
    IN  [text |-> Upto(s, n), numeric |-> numeric, rest |-> From(s, n + 1)]

\* Fault: leading zeros count.
CompareSegmentMutant(l, r, numeric) ==
    IF numeric /\ Len(l) # Len(r) THEN Sign(Len(l), Len(r)) ELSE CompareBytes(l, r)

CompareSegment(l, r, numeric) == IF numeric THEN CompareNumerals(l, r) ELSE CompareBytes(l, r)

CompareRPMVersion(left, right) ==
    LET compare[t \in Seq(Int) \X Seq(Int)] ==
            LET l == TrimNonAlnum(t[1])
                r == TrimNonAlnum(t[2])
                a == NextSegment(l)
                b == NextSegment(r)
                compared == CompareSegment(a.text, b.text, a.numeric)
            IN  IF l = <<>> \/ r = <<>> THEN Sign(Len(l), Len(r))
                ELSE IF a.numeric # b.numeric THEN IF a.numeric THEN 1 ELSE -1
                ELSE IF compared # 0 THEN compared
                ELSE compare[<<a.rest, b.rest>>]
    IN  compare[<<left, right>>]

CompareEVR(l, r) ==
    LET version == CompareRPMVersion(l.version, r.version)
    IN  IF l.epoch # r.epoch THEN Sign(l.epoch, r.epoch)
        ELSE IF version # 0 THEN version
        ELSE CompareRPMVersion(l.release, r.release)

-----------------------------------------------------------------------------
(* Debian.                                                                      *)

CompareDebianChars(c, d) ==
    IF c = d THEN 0
    ELSE IF c = Tilde THEN -1
    ELSE IF d = Tilde THEN 1
    ELSE IF IsLetter(c) # IsLetter(d) THEN IF IsLetter(c) THEN -1 ELSE 1
    ELSE Sign(c, d)

CompareDebianNonDigit(l, r) ==
    LET n == Min({Len(l), Len(r)})
        differ == {i \in 1..n : CompareDebianChars(l[i], r[i]) # 0}
    IN  IF differ # {} THEN CompareDebianChars(l[Min(differ)], r[Min(differ)])
        ELSE IF Len(l) < Len(r) THEN IF r[n + 1] = Tilde THEN 1 ELSE -1
        ELSE IF Len(l) > Len(r) THEN IF l[n + 1] = Tilde THEN -1 ELSE 1
        ELSE 0

CompareDebianDigit(l, r) == CompareNumerals(l, r)

CompareDebianVersionStrings(left, right) ==
    LET compare[t \in Seq(Int) \X Seq(Int)] ==
            LET l == t[1]
                r == t[2]
                i == PrefixLen(l, LAMBDA c : ~IsDigit(c))
                j == PrefixLen(r, LAMBDA c : ~IsDigit(c))
                m == PrefixLen(From(l, i + 1), IsDigit)
                n == PrefixLen(From(r, j + 1), IsDigit)
                text == CompareDebianNonDigit(Upto(l, i), Upto(r, j))
                number == CompareDebianDigit(SubSeq(l, i + 1, i + m), SubSeq(r, j + 1, j + n))
            IN  IF l = <<>> /\ r = <<>> THEN 0
                ELSE IF text # 0 THEN text
                ELSE IF number # 0 THEN number
                ELSE compare[<<From(l, i + m + 1), From(r, j + n + 1)>>]
    IN  compare[<<left, right>>]

CompareDebianEVR(l, r) ==
    LET version == CompareDebianVersionStrings(l.version, r.version)
    IN  IF l.epoch # r.epoch THEN Sign(l.epoch, r.epoch)
        ELSE IF version # 0 THEN version
        ELSE CompareDebianVersionStrings(l.release, r.release)

-----------------------------------------------------------------------------
(* Kernel names on the kernel's page: tokens between dots, dashes, underscores   *)
(* and colons.  A sign before a number is not modelled.                         *)

Underscore == 95

Tokens(s) ==
    LET cuts == {0, Len(s) + 1} \cup {i \in DOMAIN s : s[i] \in {Dot, Dash, Underscore, Colon}}
        ends == SetToSortSeq(cuts, <)
        pieces == [k \in 1..(Len(ends) - 1) |-> SubSeq(s, ends[k] + 1, ends[k + 1] - 1)]
    IN  SelectSeq(pieces, LAMBDA p : p # <<>>)

IsNumber(s) == s # <<>> /\ \A i \in DOMAIN s : IsDigit(s[i])
Value(digits) == FoldLeft(LAMBDA n, c : 10 * n + (c - 48), 0, digits)

\* Numbers that differ in leading zeros only are unequal, and the left one is the smaller.
CompareVersionSegments(left, right) ==
    LET l == Tokens(left)
        r == Tokens(right)
        token(t, i) == IF i <= Len(t) THEN t[i] ELSE <<>>
        differ == {i \in 1..Max({Len(l), Len(r)}) : token(l, i) # token(r, i)}
        a == token(l, Min(differ))
        b == token(r, Min(differ))
    IN  IF differ = {} THEN 0
        ELSE IF IsNumber(a) /\ IsNumber(b) THEN IF Value(a) > Value(b) THEN 1 ELSE -1
        ELSE CompareBytes(a, b)

-----------------------------------------------------------------------------
(* Reading versions.  What cannot be read is Unreadable; an epoch written        *)
(* "(none)" is not modelled.                                                    *)

EVR(epoch, version, release) == [epoch |-> epoch, version |-> version, release |-> release]
Unreadable == EVR(-1, <<>>, <<>>)

ParseEVR(s) ==
    LET dash == LastIndexOf(s, Dash)
        colon == IndexOf(s, Colon)
        epoch == Upto(s, colon - 1)
    IN  IF dash = 0 \/ dash < colon \/ (colon > 0 /\ ~IsNumber(epoch)) THEN Unreadable
        ELSE EVR(IF colon > 0 THEN Value(epoch) ELSE 0, SubSeq(s, colon + 1, dash - 1), From(s, dash + 1))

\* Fault: the version starts at the first dash.
ParseEVRFromNEVRMutant(s) ==
    LET dash == IndexOf(s, Dash)
    IN  IF dash = 0 THEN Unreadable ELSE ParseEVR(From(s, dash + 1))

\* name-version-release or name-epoch:version-release.
ParseEVRFromNEVR(s) ==
    LET dash == LastIndexOf(s, Dash)
        body == Upto(s, dash - 1)
        release == From(s, dash + 1)
        colon == IndexOf(body, Colon)
        start == LastIndexOf(IF colon > 0 THEN Upto(body, colon - 1) ELSE body, Dash)
        epoch == SubSeq(body, start + 1, colon - 1)
        version == From(body, (IF colon > 0 THEN colon ELSE start) + 1)
    IN  IF \/ dash = 0 \/ body = <<>> \/ release = <<>>
           \/ start = 0 \/ version = <<>>
           \/ colon > 0 /\ ~IsNumber(epoch)
        THEN Unreadable
        ELSE EVR(IF colon > 0 THEN Value(epoch) ELSE 0, version, release)

\* The first of the readings that succeeds.
FirstReadable(readings) ==
    LET i == SelectInSeq(readings, LAMBDA e : e # Unreadable)
    IN  IF i = 0 THEN Unreadable ELSE readings[i]

ParseRunningKernelEVR(s) ==
    LET dot == LastIndexOf(s, Dot)
        body == Upto(s, dot - 1)
        whole == ParseEVR(body)
        named == ParseEVRFromNEVR(body)
    IN  IF dot = 0 THEN Unreadable
        ELSE FirstReadable(IF IndexOf(body, Colon) > 0 THEN <<whole, named>> ELSE <<named, whole>>)

ParseDebianEVR(s) ==
    LET colon == IndexOf(s, Colon)
        epoch == Upto(s, colon - 1)
        rest == From(s, colon + 1)
        dash == LastIndexOf(rest, Dash)
    IN  IF rest = <<>> \/ dash = 1 \/ (epoch # <<>> /\ ~IsNumber(epoch)) THEN Unreadable
        ELSE EVR(Value(epoch), IF dash > 0 THEN Upto(rest, dash - 1) ELSE rest,
                 IF dash > 0 THEN From(rest, dash + 1) ELSE <<>>)

IsDebianArch(s) == s \in DebianArches

\* The version starts after the epoch, or at the first digit after a dash, or at the first digit.
ParseDebianEVRFromNEVR(s) ==
    LET dot == LastIndexOf(s, Dot)
        body == IF dot > 0 /\ IsDebianArch(From(s, dot + 1)) THEN Upto(s, dot - 1) ELSE s
        colon == IndexOf(body, Colon)
        epoch == SubSeq(body, LastIndexOf(Upto(body, colon - 1), Dash) + 1, colon - 1)
        dashed == {i \in 2..Len(body) : body[i - 1] = Dash /\ IsDigit(body[i])}
        digits == {i \in DOMAIN body : IsDigit(body[i])}
        start == IF colon > 0 THEN colon + 1 ELSE IF dashed # {} THEN Min(dashed) ELSE Min(digits)
        rest == From(body, start)
        dash == LastIndexOf(rest, Dash)
    IN  IF colon = 0 /\ digits = {} THEN Unreadable
        ELSE EVR(IF colon > 0 /\ IsNumber(epoch) THEN Value(epoch) ELSE 0,
                 IF dash > 0 THEN Upto(rest, dash - 1) ELSE rest,
                 IF dash > 0 THEN From(rest, dash + 1) ELSE <<>>)

ParseRunningKernelDebianEVR(s) ==
    LET dash == IndexOf(s, Dash)
    IN  IF s = <<>> THEN Unreadable
        ELSE IF dash = 0 THEN EVR(0, s, <<>>)
        ELSE EVR(0, Upto(s, dash - 1), From(s, dash + 1))

\* The fixed build of a decision, from the name the advisory database gives it.
ParseDecisionFixedEVR(s, family) ==
    IF family = "apt" THEN ParseDebianEVRFromNEVR(s)
    ELSE LET dot == LastIndexOf(s, Dot) IN IF dot = 0 THEN Unreadable ELSE ParseEVRFromNEVR(Upto(s, dot - 1))

Holds(op, compared) ==
    CASE op = "<" -> compared < 0 [] op = "<=" -> compared <= 0 [] op = "=" -> compared = 0
      [] op = ">=" -> compared >= 0 [] op = ">" -> compared > 0

\* A rule whose version cannot be read is an error.
EvaluateEVRRule(installed, op, text) ==
    IF ParseEVR(text) = Unreadable THEN "error"
    ELSE IF Holds(op, CompareEVR(installed, ParseEVR(text))) THEN "matches" ELSE "differs"

EvaluateDebianEVRRule(installed, op, text) ==
    IF ParseDebianEVR(text) = Unreadable THEN "error"
    ELSE IF Holds(op, CompareDebianEVR(installed, ParseDebianEVR(text))) THEN "matches" ELSE "differs"

-----------------------------------------------------------------------------
(* Writing versions.                                                            *)

Numeral(n) == <<48 + n>>        \* epochs have one digit here

\* name-epoch:version-release.arch, as the collectors write it.
FormatPackageIdentifier(name, e, arch) ==
    name \o <<Dash>> \o Numeral(e.epoch) \o <<Colon>> \o e.version
         \o (IF e.release = <<>> THEN <<>> ELSE <<Dash>> \o e.release)
         \o (IF arch = <<>> THEN <<>> ELSE <<Dot>> \o arch)

-----------------------------------------------------------------------------
(* What the comparisons should be: the lexicographic order of keys that are     *)
(* read off the whole text.                                                     *)

\* The maximal runs of characters of the same class, in order; Class gives 0 to what is skipped.
Runs(s, Class(_)) ==
    LET starts == {i \in DOMAIN s : Class(s[i]) # 0 /\ (i = 1 \/ Class(s[i - 1]) # Class(s[i]))}
        end(i) == Max({j \in i..Len(s) : \A k \in i..j : Class(s[k]) = Class(s[i])})
        order == SetToSortSeq(starts, <)
    IN  [k \in DOMAIN order |-> SubSeq(s, order[k], end(order[k]))]

\* Letters come before numbers; a word ends with what is below every letter.
RPMKey(s) ==
    LET runs == Runs(s, LAMBDA c : IF IsDigit(c) THEN 1 ELSE IF IsLetter(c) THEN 2 ELSE 0)
        key(run) == IF IsDigit(run[1]) THEN <<2, Value(run)>> ELSE <<1>> \o run \o <<0>>
    IN  FlattenSeq([k \in DOMAIN runs |-> key(runs[k])])

\* dpkg's order of characters: a tilde before the end, letters, the others.
Weight(c) == IF c = Tilde THEN -1 ELSE IF IsLetter(c) THEN c ELSE c + 256

\* Non-digits and numbers by turns; what is missing counts as nothing and zero.
DebianKey(s) ==
    LET runs == Runs(s, LAMBDA c : IF IsDigit(c) THEN 1 ELSE 2)
        key(run) == IF IsDigit(run[1]) THEN <<0, Value(run)>> ELSE [i \in DOMAIN run |-> Weight(run[i])]
    IN  FlattenSeq([k \in DOMAIN runs |-> key(runs[k])])

CompareKeys(a, b, missing) ==
    LET at(k, i) == IF i <= Len(k) THEN k[i] ELSE missing
        differ == {i \in 1..Max({Len(a), Len(b)}) : at(a, i) # at(b, i)}
    IN  IF differ = {} THEN 0 ELSE Sign(at(a, Min(differ)), at(b, Min(differ)))
=============================================================================
