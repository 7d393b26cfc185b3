------------------------------ MODULE Reference -----------------------------
(***************************************************************************)
(* The pure functions of the system against what they are meant to         *)
(* compute.  A behaviour is one input, of one of four kinds (of six, with  *)
(* ForestReference); each property compares what the code makes of it with *)
(* a definition that does not follow the code.                             *)
(***************************************************************************)
EXTENDS Destination, PathText, Replay

CONSTANTS
    Char,           \* the characters of patterns and texts
    GlobCases,      \* [pattern, text]
    PathCases,      \* [prefix, body]
    RecordCases,    \* [record, rules]: a probe's record under a rule set
    CorpusCases     \* [lines, lenient]

Text == Seq(Seq(Char))

IsHost(d) ==
    \/ d \in [kind : {"text"}, text : Text]
    \/ \E f \in Families : d \in [kind : {"ip"}, family : {f}, addr : Address(f)]

IsHostRule(h) ==
    \/ h \in [kind : {"glob"}, text : Text]
    \/ \E f \in Families :
          h \in [kind : {"cidr"}, family : {f}, addr : Address(f), prefix : Nat,
                 text : Text]

(* A probe marks a path as cut off only beside the path it captured.       *)
IsRecord(record) ==
    /\ record.comm \in Seq(Char) /\ record.path_truncated \in BOOLEAN
    /\ \A s \in record.path : record.path = {s} /\ s \in Seq(Char)
    /\ record.path = {} => ~record.path_truncated
    /\ \A d \in record.daddr : record.daddr = {d} /\ IsHost(d)

(* split('/') makes at least one segment of a glob. *)
AreRules(rules) ==
    /\ rules.secret_path_globs \subseteq Text \ {<< >>}
    /\ rules.denied_processes \subseteq Seq(Char)
    /\ \A h \in rules.denied_hosts \cup rules.warn_hosts : IsHostRule(h)

ASSUME CasesAssumption ==
    /\ GlobCases \subseteq [pattern : Text, text : Text]
    /\ PathCases \subseteq [prefix : Seq(Char), body : Seq(Char)]
    /\ \A case \in RecordCases : IsRecord(case.record) /\ AreRules(case.rules)
    /\ CorpusCases \subseteq
          [lines : Seq([kind : STRING, admitted : BOOLEAN]), lenient : BOOLEAN]

VARIABLES kind, input

Init ==
    \/ kind = "glob"   /\ input \in GlobCases
    \/ kind = "path"   /\ input \in PathCases
    \/ kind = "record" /\ input \in RecordCases
    \/ kind = "corpus" /\ input \in CorpusCases

Next == UNCHANGED << kind, input >>

Spec == Init /\ [][Next]_<< kind, input >>

(* A text, as split('/') sees it. *)
SplitMatches(pattern, path) == matches(pattern, Split(path))

(* The policy engine with the string functions it is shipped with. *)
Engine == INSTANCE Policy WITH
    Basename <- basename, ToLower <- Folded, NormalizePath <- normalize_path,
    GlobMatches <- SplitMatches, DestinationMatches <- destination_matches

Kernel == INSTANCE KernelRecord WITH
    EmptyPath <- << >>, EmptyHost <- [kind |-> "text", text |-> << << >> >>]

Verdict(record, rules) ==
    LET event == Kernel!widen(record)
    IN  IF event = Kernel!NoEvent THEN << >> ELSE Engine!eval_event(event, rules)

(* The page's highlighting of an open, by its own copies. *)
isSecret(path, rules) ==
    \E g \in rules.secret_path_globs : globMatch(g, Split(normalizePath(path)))

----------------------------------------------------------------------------
(* The glob matcher of the engine accepts exactly the texts that can be    *)
(* cut to fit the pattern, `*' taking nothing and `**' taking no segment   *)
(* included, and the page's copy, which counts positions where the engine  *)
(* takes slices, colours exactly the same paths.                           *)
GlobAgrees ==
    kind = "glob" =>
        LET found == matches(input.pattern, input.text)
        IN  /\ found = TextMatches(input.pattern, input.text)
            /\ globMatch(input.pattern, input.text) = found

(* A UNC share, or a drive with a further segment. *)
NamesWindowsPath(path) ==
    \/ Len(path) >= 2 /\ path[1] = Slash /\ path[2] = Slash
    \/ \E i \in 4 .. Len(path) :
          path[1] \in Letter /\ path[2] = ":" /\ path[3] = Slash /\ path[i] = Slash

(* What stands between the last two separators, the trailing ones aside. *)
IsLastComponent(base, path) ==
    \E i, j \in 0 .. Len(path) :
        /\ base = SubSeq(path, i + 1, j)
        /\ \A k \in DOMAIN base : ~IsSeparator(base[k])
        /\ \A k \in (j + 1) .. Len(path) : IsSeparator(path[k])
        /\ i = 0 \/ IsSeparator(path[i])
        /\ base = << >> => \A k \in DOMAIN path : IsSeparator(path[k])

(* A prefix of any number of "./", behind "//?/", "//./" or neither. *)
IsStripped(prefix) ==
    LET dots == Unverbatim(prefix)
    IN  /\ Len(dots) % 2 = 0
        /\ \A i \in DOMAIN dots : dots[i] = IF i % 2 = 1 THEN "." ELSE Slash

IsComponent(path) == path # << >> /\ ~IsSeparator(path[1])

(* However a path is spelt, the secret globs see one form of it: no        *)
(* backslash, no leading "./", the same form behind every prefix the       *)
(* engine strips, letters kept unless the path is a Windows one; and the   *)
(* page, which has its own copy of the code, sees the same, letters        *)
(* outside ASCII apart.  The base name of a command is its last component. *)
PathsAgree ==
    kind = "path" =>
        LET path   == input.prefix \o input.body
            normal == normalize_path(path)
            source == Slashed(path)
        IN  /\ ~Has(normal, Backslash) /\ ~StartsWith(normal, << ".", Slash >>)
            /\ IsStripped(Slashed(input.prefix)) /\ IsComponent(input.body)
                  => normal = normalize_path(input.body)
            /\ IF NamesWindowsPath(normal)
               THEN ~Has(normal, "C") /\ IsSuffix(normal, Folded(source))
               ELSE IsSuffix(normal, source)
            /\ ~Has(path, "E") => normalizePath(path) = normal
            /\ IsLastComponent(basename(path), path)

Covers(pattern, d) ==
    IF pattern.kind = "cidr" /\ d.kind = "ip" THEN InNetwork(pattern, d)
    ELSE TextMatches(pattern.text, TextOf(d))

Wildcards(pattern) ==
    \A i \in DOMAIN pattern : \A k \in DOMAIN pattern[i] : pattern[i][k] = "*"

Literal(segment) == \A k \in DOMAIN segment : segment[k] \notin {"*", "?"}

Raises(id, record, rules) ==
    \E k \in DOMAIN Verdict(record, rules) : Verdict(record, rules)[k].rule_id = id

ConnectFollows(record, rules) ==
    LET raised(id)    == Raises(id, record, rules)
        listed(hosts) == \E h \in hosts : \E d \in record.daddr : Covers(h, d)
        blank(hosts)  == \E h \in hosts : Wildcards(h.text)
    IN  IF record.daddr # {}
        THEN /\ raised("NET_DENIED") <=> listed(rules.denied_hosts)
             /\ raised("NET_WARN") <=>
                   listed(rules.warn_hosts) /\ ~listed(rules.denied_hosts)
        ELSE /\ raised("NET_DENIED") => blank(rules.denied_hosts)
             /\ raised("NET_WARN") => blank(rules.warn_hosts)

OpenFollows(record, rules) ==
    LET raised == Raises("SECRET_ACCESS", record, rules)
        path   == Kernel!widen(record).path
    IN  /\ ~Has(path, "E") => (raised <=> isSecret(path, rules))
        /\ raised => \E g \in rules.secret_path_globs :
              /\ record.path = {} => Wildcards(g)
              /\ record.path_truncated /\ Literal(g[Len(g)])
                    => Has(g[Len(g)], Kernel!Mark)
              /\ ~record.path_truncated =>
                    \A s \in record.path : TextMatches(g, Split(normalize_path(s)))

ExecFollows(record, rules) ==
    Raises("PROC_DENIED", record, rules) <=>
        \E name \in rules.denied_processes : \E i, j \in 0 .. Len(record.comm) :
            LET base == SubSeq(record.comm, i + 1, j)
            IN  IsLastComponent(base, record.comm) /\ Folded(name) = Folded(base)

(* From the probe's record to the verdict, across widen, the normal form,  *)
(* the matchers and the engine: a connection is denied exactly when a      *)
(* denied network or name covers its address and warned about only when    *)
(* none does; an open whose path could not be read is a secret access only *)
(* under a pattern of nothing but wildcards; a path that was cut off is    *)
(* never taken for the file it happens to end at; the page highlights      *)
(* exactly the opens the engine reports, letters outside ASCII apart; and  *)
(* a command is denied by its last component, whatever the case.           *)
VerdictsFromEvidence ==
    kind = "record" =>
        CASE input.record.kind = "net_connect" -> ConnectFollows(input.record, input.rules)
          [] input.record.kind = "file_open"   -> OpenFollows(input.record, input.rules)
          [] input.record.kind = "proc_exec"   -> ExecFollows(input.record, input.rules)
          [] OTHER -> Verdict(input.record, input.rules) = << >>

Count(lines, Test(_)) == Cardinality({i \in DOMAIN lines : Test(lines[i])})

IsEvent(l) == l.kind \notin {"blank", "bad"}

(* What a summary says of the lines it is made of. *)
AddsUp(lines, lenient, summary) ==
    LET bad   == {i \in DOMAIN lines : lines[i].kind = "bad"}
        broke == Count(lines, LAMBDA l : /\ IsEvent(l) /\ l.admitted
                                         /\ RuleIdOf(l) # NoRule)
    IN  IF bad # {} /\ ~lenient
        THEN summary.failed \in bad /\ \A i \in bad : summary.failed <= i
        ELSE /\ summary.failed = 0
             /\ summary.ingested + summary.throttled + summary.skipped
                   = Count(lines, LAMBDA l : l.kind # "blank")
             /\ summary.skipped = Cardinality(bad)
             /\ summary.violations = Min({VIOLATION_CAP, broke})
             /\ summary.violations = FoldFunction(+, 0, summary.by_rule)

(* A replay accounts for every line that is not blank as ingested, shed or *)
(* skipped; its violations are those of the admitted events, the newest    *)
(* VIOLATION_CAP of them once the ring is full, and by_rule adds up to     *)
(* them; without --lenient it stops at the first bad line of the file and  *)
(* names it by its place in the file, blank lines counted.                 *)
ReplayAddsUp ==
    kind = "corpus" =>
        AddsUp(input.lines, input.lenient, replay_lines(input.lines, input.lenient))
=============================================================================
