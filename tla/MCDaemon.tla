------------------------------ MODULE MCDaemon ------------------------------
(***************************************************************************)
(* Instances of Daemon for TLC.  A behaviour has one workload, so that the *)
(* bytes of a body and the interleavings of the Backend are not multiplied.*)
(***************************************************************************)
EXTENDS Daemon

CONSTANTS c1, c2, k1

\* A creation that passes every check.
Create == [head |-> "complete", early |-> "none", route |-> "jobs", method |-> "POST",
           media |-> TRUE, chunked |-> FALSE, length |-> 1, bytes |-> <<>>, expect |-> FALSE,
           json |-> TRUE, shape |-> TRUE, canonical |-> TRUE, registered |-> TRUE, job |-> None]

Cancel(j) == [Create EXCEPT !.route = "cancel", !.length = 0, !.job = j]
Get(route) == [Create EXCEPT !.route = route, !.method = "GET", !.length = 0, !.job = 1]

\* Requests that differ from the creation in what one check looks at.
Checked ==
    {[Create EXCEPT !.head = h] : h \in {"too_large", "malformed"}}
    \cup {[Create EXCEPT !.early = e] :
             e \in {"malformed", "target_too_long", "not_implemented", "parser_limit"}}
    \cup {[Create EXCEPT !.route = r] : r \in {"none", "job", "health"}}
    \cup {[Create EXCEPT !.media = m, !.length = n] : m \in BOOLEAN, n \in {0, body_limit + 1}}
    \cup {[Create EXCEPT !.length = 2, !.expect = TRUE]}
    \cup {[Create EXCEPT !.json = j, !.shape = s, !.registered = a] :
             j \in BOOLEAN, s \in BOOLEAN, a \in BOOLEAN}
    \cup {[Cancel(1) EXCEPT !.length = n, !.shape = s, !.canonical = i] :
             n \in {0, 1}, s \in BOOLEAN, i \in BOOLEAN}
    \cup {[Get(r) EXCEPT !.length = n, !.canonical = i] :
             r \in {"jobs", "job", "health", "ready"},
             n \in {0, 1}, i \in BOOLEAN}

Eol == <<"CR", "LF">>
End0 == <<"0">> \o Eol \o Eol

\* Bodies: complete, with an extension, with bytes behind the end, too large as one chunk, as a
\* sum, in framing or by an overflow of the size, and malformed in every part.
Bodies ==
    { <<"1">> \o Eol \o <<"x">> \o Eol \o End0,
      <<"1", "e">> \o Eol \o <<"CR">> \o Eol \o End0,
      End0 \o <<"x", "x">>,
      <<"0", "1", "1">> \o Eol \o <<"x", "LF", "x">>,
      <<"1", "0">> \o Eol \o <<"x", "x">> \o Eol \o <<"1">> \o Eol \o <<"x">> \o Eol \o End0,
      <<"1", "0", "0", "0">> \o Eol \o <<"x">>,
      <<"1", "0", "0", "1">> \o Eol \o <<"x">> \o Eol \o End0,
      <<"1", "1", "1", "1", "0", "1">> \o Eol,
      <<"0", "0", "0", "0", "0", "0", "0", "0", "0", "0", "0", "0", "0", "0", "0", "0", "1">>,
      <<"1", "x">> \o Eol \o <<"x">>,
      <<"1", "LF">> \o <<"x">>,
      <<"1", "CR", "x">>,
      <<"x">> \o Eol,
      <<"1">> \o Eol \o <<"x", "x">> \o Eol,
      <<"1">> \o Eol \o <<"x", "CR", "x">>,
      <<"0">> \o Eol \o <<"x">> \o Eol }

Chunked(bytes) == [Create EXCEPT !.chunked = TRUE, !.length = 0, !.bytes = bytes, !.shape = FALSE]

DaemonWorkloads ==
    << [connections |-> {c1}, requests |-> {Chunked(b) : b \in Bodies}, direct |-> {}, threads |-> {}],
      [connections |-> {c1}, requests |-> Checked, direct |-> {}, threads |-> {}],
      [connections |-> {c1, c2},
       requests |-> {Create, Cancel(3), Get("ready")},
       direct |-> {}, threads |-> {}],
      [connections |-> {c1}, requests |-> {Create, Cancel(3)},
       direct |-> {"create", "list"}, threads |-> {}],
      [connections |-> {}, requests |-> {}, direct |-> {"cancel"}, threads |-> {k1}],
      [connections |-> {}, requests |-> {}, direct |-> {}, threads |-> Threads] >>

TwoClosed == << [job_id |-> 1, stage |-> "closed"], [job_id |-> 2, stage |-> "closed"] >>

=============================================================================
