---------------------------- MODULE MCReference -----------------------------
(* Short inputs of every kind for Reference. *)
EXTENDS ForestReference

UpTo(n, S) == UNION {[1 .. k -> S] : k \in 0 .. n}

MCChar == {"*", "?", "a", "b", ".", "/", "bs", "c", "C", "E", ":"}
          \cup {"0", "1", "2", "3", "4"}

Segments == {<< >>, <<"a">>, <<"a", "b">>, <<"*">>, <<"?">>, <<"a", "*">>,
             <<"*", "b">>, <<"*", "a", "*">>, <<"*", "*", "b">>, DoubleStar}
Names == {<< >>, <<"a">>, <<"b">>, <<"a", "b">>}

MCGlobCases ==
    [pattern : UpTo(3, Segments) \ {<< >>}, text : UpTo(3, Names) \ {<< >>}]

Spellings == {<< >>, <<".", "/">>, <<".", "/", ".", "bs">>,
              <<"bs", "bs", "?", "bs">>, <<"/", "/", ".", "/">>}

MCPathCases ==
    [prefix : Spellings,
     body : UpTo(3, {".", "/", "bs", "c", "C", ":"}) \cup UpTo(3, {"/", "bs", "E"})
               \cup {<<"C", ":">> \o rest : rest \in UpTo(4, {"/", "bs", "c", "C"})}]

----------------------------------------------------------------------------
MCWidth == [v4 |-> 3, v6 |-> 2]

Addresses == UNION {[kind : {"ip"}, family : {f}, addr : Address(f)] : f \in Families}

(* Prefix lengths go one past the width, which the parser lets through. *)
Network(f, addr, prefix) ==
    [kind |-> "cidr", family |-> f, addr |-> addr, prefix |-> prefix,
     text |-> TextOf([kind |-> "ip", family |-> f, addr |-> addr])
                 \o << << ToString(prefix) >> >>]

Networks == UNION {{Network(f, addr, prefix) :
                       addr \in Address(f), prefix \in 0 .. Width[f] + 1} : f \in Families}

(* A network's own text is a destination that no parser takes for an       *)
(* address.                                                                *)
HostNames == [kind : {"text"},
              text : {<<n>> : n \in Names} \cup {<< <<"1", "0">>, <<"1">> >>}]

HostGlobs == [kind : {"glob"},
              text : {<<DoubleStar>>, << <<"*">> >>, << <<"a", "*">> >>, << <<"1", "*">> >>}]

NoRules == [secret_path_globs |-> {}, denied_processes |-> {},
            denied_hosts |-> {}, warn_hosts |-> {}, max_events_per_sec |-> 0]

Record(k) == [kind |-> k, tgid |-> 7, comm |-> <<"c">>, path |-> {},
              path_truncated |-> FALSE, daddr |-> {}]

NetCases ==
    {[record |-> [Record("net_connect") EXCEPT !.daddr = d],
      rules |-> [NoRules EXCEPT !.denied_hosts = denied, !.warn_hosts = warned]] :
        d \in {{}} \cup {{a} : a \in Addresses \cup HostNames},
        denied \in {{}} \cup {{h} : h \in Networks \cup HostGlobs},
        warned \in {{}} \cup {{h} : h \in HostGlobs}}

SecretGlobs == {<<DoubleStar>>, << <<"*">> >>, << <<".", "c">> >>,
                <<DoubleStar, <<".", "c">> >>, <<DoubleStar, <<".", "*">> >>,
                << <<"c", "?">> >>, << <<"?">>, DoubleStar>>}

OpenCases ==
    {[record |-> [Record("file_open") EXCEPT !.path = s, !.path_truncated = cut],
      rules |-> [NoRules EXCEPT !.secret_path_globs = {g}]] :
        s \in {{t} : t \in UpTo(3, {".", "/", "bs", "c", "C"})},
        cut \in BOOLEAN, g \in SecretGlobs}
    \cup {[record |-> Record("file_open"),
           rules |-> [NoRules EXCEPT !.secret_path_globs = {g}]] : g \in SecretGlobs}

ExecCases ==
    {[record |-> [Record("proc_exec") EXCEPT !.comm = s],
      rules |-> [NoRules EXCEPT !.denied_processes = {n}]] :
        s \in UpTo(4, {"/", "bs", "c", "C"}), n \in {<<"c">>, <<"C", "c">>}}

MCRecordCases ==
    NetCases \cup OpenCases \cup ExecCases
        \cup {[record |-> Record("cap_escalate"), rules |-> NoRules]}

----------------------------------------------------------------------------
MCTableCases ==
    UNION {[tgids -> [ppid : 0 .. 4, ts : 1 .. 2]] : tgids \in SUBSET (1 .. 4)}

(* As with 2^32 task ids, the last pass of a round has an offset of 296    *)
(* less than the number of ids, so that its sums wrap (pass 65), pass 8031 *)
(* straddles the wrap, and pass 1632 gives a process the id 1.             *)
MCPassCases ==
    {c \in [first : 0 .. 3 \cup 60 .. 66 \cup {1631, 1632, 8030, 8031},
            second : 0 .. 131 \cup {1632, 1633, 1696, 8031, 8032, 8096}] :
        InOneRound(c.first, c.second)}

MCRuleIdOf(l) == IF l.kind \in {"secret", "net"} THEN l.kind ELSE NoRule

MCCorpusCases ==
    [lines : UpTo(4, {Line("blank", FALSE), Line("bad", FALSE)}
                       \cup {Line(k, a) : k \in {"plain", "secret", "net"}, a \in BOOLEAN}),
     lenient : BOOLEAN]
=============================================================================
