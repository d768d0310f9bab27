--------------------------- MODULE MCSodaPoolBuild ---------------------------
(***************************************************************************)
(* An instance of SodaPoolBuild for TLC: directories of up to three        *)
(* entries, one of them a file of every shape the parser tells apart.      *)
(***************************************************************************)
EXTENDS SodaPoolBuild, TLC

CONSTANTS s1, s2, x, y

N(stem, pools, ext) == [stem |-> stem, pools |-> pools, ext |-> ext]
Code(modules) == [kind |-> "code", modules |-> modules]
Dir == [kind |-> "dir", modules |-> {}]
Junk == [kind |-> "junk", modules |-> {}]
Plain == Code({})
M(name, arg) == [name |-> name, retries |-> 0, arg |-> arg, response |-> TRUE]
Client(name, methods) == [name |-> name, client |-> TRUE, new |-> TRUE, methods |-> methods]

\* A module with one impl block of at most one method, of every shape.
Methods == [name : {x}, retries : {0}, response : BOOLEAN,
            arg : {"none", "plain", "unary", "late", "bare", "stream"}]
Impls == [name : {x}, client : BOOLEAN, new : BOOLEAN, methods : {{}} \cup {{m} : m \in Methods}]
Modules == [name : {x}, client : BOOLEAN, impls : {{i} : i \in Impls}]
Shapes == {Dir, Junk, Plain} \cup {Code({m}) : m \in Modules}

\* Two clients, one with two methods, and a module without a client.
Typical == Code({[name |-> x, client |-> TRUE, impls |-> {}],
                 [name |-> y, client |-> TRUE,
                  impls |-> {Client(x, {M(x, "unary"), M(y, "stream")}), Client(y, {})}]})

\* The file of any shape, and two others of few shapes; one may have the name
\* of a pooled version, no identifier for a name, or another extension.  Last,
\* a file whose name with .rs is that of no file.
Directories ==
  LET Alone == {N(s1, 0, "rs") :> f : f \in Shapes}
      Others == {N(s2, 0, "rs") :> Plain, N(s1, 1, "rs") :> Typical, N(s1, 1, "rs") :> Plain,
                 N(s1, 1, "rs") :> Dir, N(s1, 0, "RS") :> Typical, N(s1, 0, "txt") :> Typical}
      Second == {N(s1, 2, "rs") :> Plain, N(s2, 0, "txt") :> Plain, N(s2, 1, "rs") :> Dir}
      NoneSuch == {N(s1, 0, "RS") :> Typical @@ N(s1, 1, "txt") :> Plain}
  IN  Alone \cup NoneSuch \cup {a @@ o : a \in Alone, o \in Others}
        \cup {a @@ o @@ t : a \in {N(s1, 0, "rs") :> f : f \in {Typical, Plain, Junk}},
                            o \in Others, t \in Second}

=============================================================================
