---------------------------- MODULE SodaPoolBuild ----------------------------
(***************************************************************************)
(* The client generator (soda-pool-build): SodaPoolBuilder's build_clients *)
(* and build_all_clients (lib.rs), which read the files of a directory     *)
(* and write a pooled version beside each; the parser (parser.rs); and     *)
(* what the generated code looks like to the parser (generator.rs).        *)
(*                                                                         *)
(* build_all_clients writes to the directory it is listing, and runs again *)
(* with every build.  A listing returns each file that is there from the   *)
(* start, and may or may not return one created meanwhile.                 *)
(***************************************************************************)
EXTENDS Naturals

CONSTANTS
  Stems,      (* file names without extension and without "_pool"          *)
  Idents,     (* the stems that are Rust identifiers (not "google.rpc")    *)
  Names,      (* names of modules, types and methods, without suffixes     *)
  Sources,    (* directories the user may start with                       *)
  MaxBuilds   (* bound of the model: builds in a row                       *)

VARIABLES
  disk,    (* the directory: what is in each file                          *)
  start,   (* history: the directory when the build began                  *)
  todo,    (* services still to be built; a listing's entries for `all'    *)
  listed,  (* entries the listing has returned                             *)
  pc,      (* "idle", "some" (build_clients), "all" (build_all_clients)    *)
  out,     (* what the last build returned                                 *)
  builds   (* builds so far                                                *)

vars == <<disk, start, todo, listed, pc, out, builds>>

-----------------------------------------------------------------------------
(* The parser.  Modules, impl blocks and methods are sets: their order     *)
(* decides nothing.  `retries' counts the "_with_retry" suffixes of a      *)
(* method; of its types only the second parameter and the result matter:   *)
(*   "none"   there is none, or no receiver                                *)
(*   "plain"  not an impl of a trait of tonic's                            *)
(*   "unary"  impl tonic::IntoRequest<T>                                   *)
(*   "late"   impl tonic::IntoRequest<T> with a lifetime bound before it   *)
(*   "bare"   impl tonic::IntoRequest without a type                       *)
(*   "stream" impl tonic::IntoStreamingRequest<T>                          *)
(* and whether the result is Result<Response<T>, ...>.                     *)

Method == [name : Names, retries : Nat, response : BOOLEAN,
           arg : {"none", "plain", "unary", "late", "bare", "stream"}]

\* An impl block: is it for a type named ...Client, has it a fn new?
Impl == [name : Names, client : BOOLEAN, new : BOOLEAN, methods : SUBSET Method]

\* Is it a module named ..._client?
Module == [name : Names, client : BOOLEAN, impls : SUBSET Impl]

File == [kind : {"code", "junk", "dir"}, modules : SUBSET Module]

\* is_grpc_method: the first trait among the bounds decides.
is_grpc_method(m) == m.arg \in {"unary", "late", "bare"}

\* parse_grpc_method succeeds: the first bound must be IntoRequest<T>
\* (get_into_request_type), the result a Response (get_result_success_type,
\* get_tonic_response_type).
parse_grpc_method(m) == m.arg = "unary" /\ m.response

find_grpc_methods(impl) == {m \in impl.methods : is_grpc_method(m)}

find_client_interface_implementations(module) ==
  {impl \in module.impls : impl.client /\ impl.new}

find_client_modules(file) == {module \in file.modules : module.client}

\* parse_grpc_client_file finds every method it takes for one in order.
WellFormed(file) ==
  \A module \in find_client_modules(file) :
    \A impl \in find_client_interface_implementations(module) :
      \A m \in find_grpc_methods(impl) : parse_grpc_method(m)

\* all(|module| module.clients.is_empty())
NoClients(file) ==
  \A module \in find_client_modules(file) : find_client_interface_implementations(module) = {}

-----------------------------------------------------------------------------
(* The generator.                                                          *)

\* Each method found and its _with_retry form.
pooled_methods(impl) ==
  UNION {{m, [m EXCEPT !.retries = @ + 1]} : m \in find_grpc_methods(impl)}

\* Mutant: the pooled client is named ...Client too.
pooled_client_named_client(impl) ==
  {[impl EXCEPT !.methods = {}],
   [impl EXCEPT !.new = FALSE, !.methods = pooled_methods(impl)]}

\* A client XClient becomes XClientPool with two impl blocks: the constructors,
\* and the methods.
pooled_client(impl) ==
  {[impl EXCEPT !.client = FALSE, !.methods = {}],
   [impl EXCEPT !.client = FALSE, !.new = FALSE, !.methods = pooled_methods(impl)]}

\* generate_pooled_version: the modules keep their names.
pooled_module(module) ==
  [module EXCEPT
     !.impls = UNION {pooled_client(i) : i \in find_client_interface_implementations(module)}]
generate_pooled_version(file) ==
  [file EXCEPT !.modules = {pooled_module(m) : m \in find_client_modules(file)}]

-----------------------------------------------------------------------------
(* Files.  A name is a stem, a number of "_pool" suffixes, an extension    *)
(* ("txt" for any that is not rs), and a directory what is in each file.   *)

Name == [stem : Stems, pools : Nat, ext : {"rs", "RS", "txt"}]

IsDirectory(d) ==
  /\ DOMAIN d \subseteq Name
  /\ d = [n \in DOMAIN d |-> d[n]]
  /\ \A n \in DOMAIN d : d[n] \in File

ASSUME IdentsAssumption == Idents \subseteq Stems
ASSUME SourcesAssumption == \A d \in Sources : IsDirectory(d)
ASSUME MaxBuildsAssumption == MaxBuilds \in Nat

\* The name with_extension("rs") gives.
rs(name) == [name EXCEPT !.ext = "rs"]

\* Mutant: the file itself.
same_name(name) == name

\* Mutant: the stem with "_pool".
no_extension(name) == [name EXCEPT !.pools = @ + 1, !.ext = ""]

\* output_file: the stem with "_pool.rs".
output_file(name) == [name EXCEPT !.pools = @ + 1]

BuilderError == {"UnexpectedStructure", "MissingConfiguration", "IoError", "SynError",
                 "GrpcClientNotFound"}

\* The result of build_clients for one service, in the order of the code:
\* parse_grpc_client_file (not there, no identifier, no Rust, not as
\* expected), then the check that something was found, then the write, whose
\* unwrap panics if it cannot be done.
Outcome(name) ==
  IF rs(name) \notin DOMAIN disk \/ disk[rs(name)].kind = "dir" THEN "IoError"
  ELSE IF name.stem \notin Idents \/ disk[rs(name)].kind = "junk" THEN "SynError"
  ELSE IF ~WellFormed(disk[rs(name)]) THEN "UnexpectedStructure"
  ELSE IF NoClients(disk[rs(name)]) THEN "GrpcClientNotFound"
  ELSE LET new == output_file(rs(name))
       IN  IF new \in DOMAIN disk /\ disk[new].kind = "dir" THEN "panic" ELSE "Ok"

\* Mutant: a file that is there is left alone.
write_if_absent(name) ==
  LET new == output_file(rs(name))
      code == generate_pooled_version(disk[rs(name)])
  IN  disk' = [n \in DOMAIN disk \cup {new} |-> IF n \in DOMAIN disk THEN disk[n] ELSE code]

\* fs::write of the pooled version.
Write(name) ==
  LET new == output_file(rs(name))
      code == generate_pooled_version(disk[rs(name)])
  IN  disk' = [n \in DOMAIN disk \cup {new} |-> IF n = new THEN code ELSE disk[n]]

Return(result) == pc' = "idle" /\ out' = result /\ todo' = {} /\ listed' = {}

-----------------------------------------------------------------------------
Init ==
  /\ disk \in Sources
  /\ start = disk
  /\ todo = {}
  /\ listed = {}
  /\ pc = "idle"
  /\ out = "none"
  /\ builds = 0

\* A build without a configured dir.
NotConfigured ==
  /\ pc = "idle" /\ builds < MaxBuilds
  /\ Return("MissingConfiguration")
  /\ builds' = builds + 1
  /\ start' = disk
  /\ UNCHANGED disk

\* build_clients(services), for services the user wrote, or build_all_clients.
Begin(mode, services) ==
  /\ pc = "idle" /\ builds < MaxBuilds
  /\ pc' = mode
  /\ todo' = services
  /\ start' = disk
  /\ builds' = builds + 1
  /\ out' = "none"
  /\ UNCHANGED <<disk, listed>>

\* One service of build_clients: the first error ends the build.
build_clients(name) ==
  /\ pc = "some"
  /\ name \in todo
  /\ \/ /\ Outcome(name) = "Ok"
        /\ Write(name)
        /\ todo' = todo \ {name}
        /\ UNCHANGED <<pc, out, listed>>
     \/ /\ Outcome(name) # "Ok"
        /\ Return(Outcome(name))
        /\ UNCHANGED disk
  /\ UNCHANGED <<start, builds>>

\* One entry of build_all_clients: no file, or no .rs (in any case of letters),
\* is skipped, and so is a file without clients; any other error ends the build.
list(name) ==
  /\ pc = "all"
  /\ name \in DOMAIN disk \ listed
  /\ LET outcome == IF disk[name].kind = "dir" \/ name.ext = "txt" THEN "skip" ELSE Outcome(name)
     IN  \/ /\ outcome = "Ok"
            /\ Write(name)
            /\ listed' = listed \cup {name}
            /\ UNCHANGED <<pc, out, todo>>
         \/ /\ outcome \in {"skip", "GrpcClientNotFound"}
            /\ listed' = listed \cup {name}
            /\ UNCHANGED <<disk, pc, out, todo>>
         \/ /\ outcome \notin {"Ok", "skip", "GrpcClientNotFound"}
            /\ Return(outcome)
            /\ UNCHANGED disk
  /\ UNCHANGED <<start, builds>>

\* Nothing left to do: all services are built, or the listing has returned at
\* least what was there from the start.
Finish ==
  /\ \/ pc = "some" /\ todo = {}
     \/ pc = "all" /\ todo \subseteq listed
  /\ Return("Ok")
  /\ UNCHANGED <<disk, start, builds>>

Next ==
  \/ NotConfigured
  \/ \E services \in SUBSET DOMAIN disk : Begin("some", services)
  \/ Begin("all", DOMAIN disk)
  \/ \E name \in DOMAIN disk : build_clients(name) \/ list(name)
  \/ Finish

Spec == Init /\ [][Next]_vars

-----------------------------------------------------------------------------
TypeOK ==
  /\ IsDirectory(disk) /\ IsDirectory(start)
  /\ DOMAIN start \subseteq DOMAIN disk
  /\ todo \subseteq DOMAIN disk
  /\ listed \subseteq DOMAIN disk
  /\ pc \in {"idle", "some", "all"}
  /\ out \in BuilderError \cup {"none", "Ok", "panic"}
  /\ builds \in 0 .. MaxBuilds

\* The files that have clients in a directory d, and what a build of all of
\* them should make of it: a pooled version beside each and nothing else.
WithClients(d) ==
  {n \in DOMAIN d : /\ n.ext = "rs" /\ n.stem \in Idents /\ d[n].kind = "code"
                    /\ WellFormed(d[n]) /\ ~NoClients(d[n])}
Pooled(n) == [n EXCEPT !.pools = @ + 1]
Target(d) ==
  [n \in DOMAIN d \cup {Pooled(m) : m \in WithClients(d)} |->
     IF \E m \in WithClients(d) : n = Pooled(m)
       THEN generate_pooled_version(d[CHOOSE m \in WithClients(d) : n = Pooled(m)])
       ELSE d[n]]

\* No pooled version takes the name of a file that has clients itself.
NoClash == \A m \in WithClients(start) : Pooled(m) \notin WithClients(start)

\* Whatever the order of the listing, whichever of its own files it returns and
\* whichever build of several this is, build_all_clients ends with the target
\* directory: it never makes a pooled version of a pooled version.
AllBuilt == NoClash /\ pc = "all" /\ todo \subseteq listed => disk = Target(start)

\* Even when the pooled version of one file overwrites another client file, in
\* either order of the listing: at the end every file that still has clients has
\* the pooled version of what is in it now (build_all_clients).
UpToDate ==
  pc = "all" /\ todo \subseteq listed =>
    \A n \in WithClients(disk) :
      Pooled(n) \in DOMAIN disk /\ disk[Pooled(n)] = generate_pooled_version(disk[n])

\* A build that fails half-way, or builds some files only, leaves every file as
\* it was or as a full build would: the user's own files are not touched.
OnlyPooledWritten ==
  NoClash => /\ DOMAIN disk \subseteq DOMAIN Target(start)
             /\ \A n \in DOMAIN disk :
                  \/ n \in DOMAIN start /\ disk[n] = start[n]
                  \/ disk[n] = Target(start)[n]

=============================================================================
