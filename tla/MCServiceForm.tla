--------------------------- MODULE MCServiceForm ---------------------------
EXTENDS ServiceForm

PlainUnit == [after |-> <<>>, restart |-> "always", exec |-> Plainly("none"), directives |-> <<>>]
PlainBuild == [kind |-> "git", source |-> "app", command |-> Plainly("make")]

Plain ==
    [name |-> Plainly("old"), unit |-> PlainUnit,
     artifact |-> [kind |-> "upload", source |-> "none", command |-> Plainly("none")],
     health_check |-> Default, secret_ids |-> {}, env |-> [n \in {"LOG"} |-> Assigned(n, "old")], routes |-> {}]

(* "KEY=first", a line break, "LOG=second", as one variable. *)
TwoLines ==
    [n \in {"KEY"} |-> [text |-> "two lines",
                        lines |-> {[name |-> n, text |-> "first"], [name |-> "LOG", text |-> "second"]}]]
Cut(text) == [text EXCEPT !.broken = TRUE]

(* A plain service, and services that differ from it in what a form        *)
(* handles badly, or well, one thing at a time.                            *)
MCSpelled ==
    LET a == Plainly({"a"})
        afters == {<<a>>, <<a, Plainly({"b"})>>, <<Cut(a)>>, <<Plainly({})>>, <<Plainly({}), Plainly({})>>}
        units == {[PlainUnit EXCEPT !.after = after] : after \in afters}
                 \cup {[PlainUnit EXCEPT !.restart = "on-abnormal"], [PlainUnit EXCEPT !.exec = Cut(@)],
                       [PlainUnit EXCEPT !.directives = TwoLines],
                       [PlainUnit EXCEPT !.directives = Plain.env, !.restart = "no"]}
        checks == {[kind |-> "http", tuned |-> TRUE], [kind |-> "command", tuned |-> FALSE]}
        places == Place \ Unusable
        plain == {{[at |-> p, h2c |-> FALSE]} : p \in places}
        grpc == {{[at |-> p, h2c |-> TRUE]} : p \in places}
        mixed == {{[at |-> p, h2c |-> FALSE], [at |-> q, h2c |-> TRUE]} : p, q \in places}
    IN {Plain, [Plain EXCEPT !.name = Cut(@)], [Plain EXCEPT !.env = TwoLines],
        [Plain EXCEPT !.artifact = PlainBuild], [Plain EXCEPT !.artifact.command = Cut(@)],
        [Plain EXCEPT !.secret_ids = Secret]}
       \cup {[Plain EXCEPT !.unit = u] : u \in units}
       \cup {[Plain EXCEPT !.health_check = c] : c \in checks}
       \cup {[Plain EXCEPT !.routes = rs, !.artifact = PlainBuild] : rs \in plain \cup grpc}
       \cup {[Plain EXCEPT !.routes = rs] : rs \in {m \in mixed : Cardinality({r.at : r \in m}) = 2}}

=============================================================================
