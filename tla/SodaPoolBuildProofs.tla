------------------------- MODULE SodaPoolBuildProofs -------------------------
(***************************************************************************)
(* The safety of SodaPoolBuild for any directory, any files in it and any  *)
(* number of builds.                                                       *)
(***************************************************************************)
EXTENDS SodaPoolBuild, TLAPS

\* The pooled version of n in d is that of what is in n.
UpToDateIn(d, n) == Pooled(n) \in DOMAIN d /\ d[Pooled(n)] = generate_pooled_version(d[n])

\* A file the build has created has no clients.
CreatedHaveNoClients == \A n \in DOMAIN disk \ DOMAIN start : NoClients(disk[n])

\* A file is as it was, or has been written from a client file.
KeptOrWritten ==
  NoClash => \A n \in DOMAIN disk :
               \/ n \in DOMAIN start /\ disk[n] = start[n]
               \/ \E m \in WithClients(start) :
                    n = Pooled(m) /\ disk[n] = generate_pooled_version(start[m])

\* What the listing has returned and still has clients is up to date.
ListedUpToDate == pc = "all" => \A n \in listed \cap WithClients(disk) : UpToDateIn(disk, n)

\* The inductive invariant.
IInv ==
  /\ TypeOK
  /\ IF pc = "all" THEN todo = DOMAIN start ELSE listed = {}
  /\ CreatedHaveNoClients
  /\ KeptOrWritten
  /\ ListedUpToDate

-----------------------------------------------------------------------------
(* Names and files.                                                        *)

\* What with_extension("rs") and "_pool.rs" do to a name (build_clients): no
\* two sources have the same pooled version.
LEMMA NameFacts ==
  ASSUME NEW n \in Name, NEW m \in Name
  PROVE  /\ rs(n) \in Name /\ rs(n).ext = "rs" /\ rs(n).stem = n.stem
         /\ n.ext = "rs" => rs(n) = n
         /\ Pooled(n) \in Name
         /\ output_file(n) = Pooled(n)
         /\ Pooled(n) = Pooled(m) => n = m
         /\ Pooled(n) # n
<1>1. /\ rs(n) \in Name /\ rs(n).ext = "rs" /\ rs(n).stem = n.stem
      /\ n.ext = "rs" => rs(n) = n
  BY DEF rs, Name
<1>2. Pooled(n) \in Name /\ Pooled(n).pools = n.pools + 1 /\ n.pools \in Nat
  BY DEF Pooled, Name
<1>3. output_file(n) = Pooled(n)
  BY DEF output_file, Pooled
<1>4. ASSUME Pooled(n) = Pooled(m)
      PROVE  n = m
  <2>1. /\ Pooled(n).stem = n.stem /\ Pooled(m).stem = m.stem
        /\ Pooled(n).ext = n.ext /\ Pooled(m).ext = m.ext
        /\ Pooled(n).pools = n.pools + 1 /\ Pooled(m).pools = m.pools + 1
    BY DEF Pooled, Name
  <2>2. n.stem = m.stem /\ n.ext = m.ext /\ n.pools = m.pools
    BY <1>4, <2>1 DEF Name
  <2> QED
    BY <2>2 DEF Name
<1>5. Pooled(n) # n
  BY <1>2
<1> QED
  BY <1>1, <1>2, <1>3, <1>4, <1>5

\* The methods of a generated client are methods (pooled_methods).
LEMMA PooledMethodsType ==
  ASSUME NEW impl \in Impl
  PROVE  pooled_methods(impl) \in SUBSET Method
<1>1. ASSUME NEW m \in find_grpc_methods(impl)
      PROVE  {m, [m EXCEPT !.retries = @ + 1]} \in SUBSET Method
  <2>1. m \in Method
    BY DEF find_grpc_methods, Impl
  <2> QED
    BY <2>1 DEF Method
<1> QED
  BY <1>1, Zenon DEF pooled_methods

\* A generated client is two impl blocks for a type that is not a ...Client
\* (GrpcClientImpl::generate_pooled_version).
LEMMA PooledClientFacts ==
  ASSUME NEW impl \in Impl
  PROVE  /\ pooled_client(impl) \in SUBSET Impl
         /\ \A i \in pooled_client(impl) : ~i.client
<1>1. pooled_methods(impl) \in SUBSET Method
  BY PooledMethodsType
<1> DEFINE constructors == [impl EXCEPT !.client = FALSE, !.methods = {}]
           methods == [impl EXCEPT !.client = FALSE, !.new = FALSE,
                                   !.methods = pooled_methods(impl)]
<1>2. constructors \in Impl /\ constructors.client = FALSE
  BY DEF Impl
<1>3. methods \in Impl /\ methods.client = FALSE
  BY <1>1 DEF Impl
<1>4. pooled_client(impl) = {constructors, methods}
  BY DEF pooled_client
<1> QED
  BY <1>2, <1>3, <1>4

\* A generated module is a module without clients
\* (GrpcClientModule::generate_pooled_version).
LEMMA PooledModuleFacts ==
  ASSUME NEW module \in Module
  PROVE  /\ pooled_module(module) \in Module
         /\ find_client_interface_implementations(pooled_module(module)) = {}
<1> DEFINE found == find_client_interface_implementations(module)
           impls == UNION {pooled_client(i) : i \in found}
<1>1. \A i \in found : i \in Impl
  BY DEF find_client_interface_implementations, Module
<1>2. \A i \in impls : i \in Impl /\ ~i.client
  <2> SUFFICES ASSUME NEW i \in impls PROVE i \in Impl /\ ~i.client
    OBVIOUS
  <2>1. PICK c \in found : i \in pooled_client(c)
    OBVIOUS
  <2> QED
    BY <1>1, <2>1, PooledClientFacts
<1>3. pooled_module(module) = [module EXCEPT !.impls = impls]
  BY DEF pooled_module
<1> HIDE DEF impls
<1>4. pooled_module(module) \in Module /\ pooled_module(module).impls = impls
  BY <1>2, <1>3 DEF Module
<1> QED
  BY <1>2, <1>4 DEF find_client_interface_implementations

\* A pooled version is a file of Rust in which the parser finds no client, so
\* that the builder does not take its own output for input: on this rests that
\* a build of all files can be repeated (generate_pooled_version,
\* parse_grpc_client_file).
THEOREM PooledVersionHasNoClients ==
  ASSUME NEW file \in File
  PROVE  /\ generate_pooled_version(file) \in File
         /\ generate_pooled_version(file).kind = file.kind
         /\ NoClients(generate_pooled_version(file))
<1> DEFINE modules == {pooled_module(m) : m \in find_client_modules(file)}
<1>1. \A m \in modules : m \in Module /\ find_client_interface_implementations(m) = {}
  BY PooledModuleFacts DEF find_client_modules, File
<1>2. generate_pooled_version(file) = [file EXCEPT !.modules = modules]
  BY DEF generate_pooled_version
<1> HIDE DEF modules
<1>3. /\ generate_pooled_version(file) \in File
      /\ generate_pooled_version(file).kind = file.kind
      /\ generate_pooled_version(file).modules = modules
  BY <1>1, <1>2 DEF File
<1> QED
  BY <1>1, <1>3 DEF NoClients, find_client_modules
-----------------------------------------------------------------------------
(* The steps.                                                              *)

\* A service is built exactly when the file it stands for has clients and can
\* be written (build_clients).
LEMMA OutcomeFacts ==
  ASSUME TypeOK, NEW name \in Name
  PROVE  /\ Outcome(name) = "Ok" => rs(name) \in WithClients(disk)
         /\ name \in WithClients(disk) =>
              rs(name) = name /\ Outcome(name) \in {"Ok", "panic"}
<1> DEFINE src == rs(name)
<1>1. /\ src \in Name /\ src.ext = "rs" /\ src.stem = name.stem
      /\ name.ext = "rs" => src = name
  BY NameFacts
<1>2. src \in DOMAIN disk => disk[src].kind \in {"code", "junk", "dir"}
  BY DEF TypeOK, IsDirectory, File
<1> HIDE DEF src
<1>3. Outcome(name) = "Ok" =>
        /\ src \in DOMAIN disk /\ disk[src].kind # "dir"
        /\ name.stem \in Idents /\ disk[src].kind # "junk"
        /\ WellFormed(disk[src]) /\ ~NoClients(disk[src])
  BY DEF Outcome, src
<1>4. name \in WithClients(disk) =>
        /\ name.ext = "rs" /\ name \in DOMAIN disk /\ name.stem \in Idents
        /\ disk[name].kind = "code" /\ WellFormed(disk[name]) /\ ~NoClients(disk[name])
  BY DEF WithClients
<1>5. name \in WithClients(disk) => Outcome(name) \in {"Ok", "panic"}
  BY <1>1, <1>4 DEF Outcome, src
<1>6. Outcome(name) = "Ok" => src \in WithClients(disk)
  BY <1>1, <1>2, <1>3 DEF WithClients
<1> QED
  BY <1>1, <1>4, <1>5, <1>6 DEF src

\* The directory after a write: a pooled version without clients, and nothing
\* else changed (fs::write in build_clients).
LEMMA WriteFacts ==
  ASSUME TypeOK, NEW name \in Name, Outcome(name) = "Ok", Write(name)
  PROVE  /\ rs(name) \in WithClients(disk) /\ rs(name) \in Name /\ Pooled(rs(name)) \in Name
         /\ IsDirectory(disk')
         /\ DOMAIN disk' = DOMAIN disk \cup {Pooled(rs(name))}
         /\ disk'[Pooled(rs(name))] = generate_pooled_version(disk[rs(name)])
         /\ NoClients(disk'[Pooled(rs(name))])
         /\ \A n \in DOMAIN disk : n # Pooled(rs(name)) => disk'[n] = disk[n]
<1> DEFINE src == rs(name)
           new == Pooled(src)
           code == generate_pooled_version(disk[src])
<1>1. src \in Name /\ src \in WithClients(disk)
  BY NameFacts, OutcomeFacts
<1>2. new \in Name /\ output_file(src) = new
  BY <1>1, NameFacts
<1>3. src \in DOMAIN disk /\ disk[src] \in File
  BY <1>1 DEF WithClients, TypeOK, IsDirectory
<1>4. code \in File /\ NoClients(code)
  BY <1>3, PooledVersionHasNoClients
<1>5. disk' = [n \in DOMAIN disk \cup {new} |-> IF n = new THEN code ELSE disk[n]]
  BY <1>2 DEF Write
<1> HIDE DEF src, new, code
<1>6. DOMAIN disk' = DOMAIN disk \cup {new} /\ disk'[new] = code
  BY <1>5
<1>7. \A n \in DOMAIN disk : n # new => disk'[n] = disk[n]
  BY <1>5
<1>8. DOMAIN disk \subseteq Name /\ \A n \in DOMAIN disk : disk[n] \in File
  BY DEF TypeOK, IsDirectory
<1>9. disk' = [n \in DOMAIN disk' |-> disk'[n]]
  BY <1>5
<1>10. \A n \in DOMAIN disk' : disk'[n] \in File
  BY <1>4, <1>6, <1>7, <1>8
<1>11. IsDirectory(disk')
  BY <1>2, <1>6, <1>8, <1>9, <1>10 DEF IsDirectory
<1> QED
  BY <1>1, <1>2, <1>4, <1>6, <1>7, <1>11 DEF src, new, code

\* Writing a file makes no client file: those there are afterwards were there
\* before, as they are (build_clients).
LEMMA WriteMakesNoClients ==
  ASSUME TypeOK, NEW name \in Name, Outcome(name) = "Ok", Write(name),
         NEW n \in WithClients(disk')
  PROVE  n \in WithClients(disk) /\ disk'[n] = disk[n] /\ n # Pooled(rs(name))
<1>1. /\ n \in DOMAIN disk' /\ n.ext = "rs" /\ n.stem \in Idents /\ disk'[n].kind = "code"
      /\ WellFormed(disk'[n]) /\ ~NoClients(disk'[n])
  BY DEF WithClients
<1>2. n # Pooled(rs(name)) /\ n \in DOMAIN disk
  BY <1>1, WriteFacts
<1>3. disk'[n] = disk[n]
  BY <1>2, WriteFacts
<1> QED
  BY <1>1, <1>2, <1>3 DEF WithClients

\* A source whose name no other client file's pooled version takes is never
\* written to (build_clients).
LEMMA SourcesKept ==
  ASSUME TypeOK, NoClash, KeptOrWritten, NEW m \in WithClients(start)
  PROVE  m \in DOMAIN start /\ m \in DOMAIN disk /\ disk[m] = start[m] /\ m \in WithClients(disk)
<1>1. /\ m \in DOMAIN start /\ m.ext = "rs" /\ m.stem \in Idents /\ start[m].kind = "code"
      /\ WellFormed(start[m]) /\ ~NoClients(start[m])
  BY DEF WithClients
<1>2. m \in DOMAIN disk
  BY <1>1 DEF TypeOK
<1>3. ~\E k \in WithClients(start) : m = Pooled(k)
  BY DEF NoClash
<1>4. disk[m] = start[m]
  BY <1>2, <1>3 DEF KeptOrWritten
<1> QED
  BY <1>1, <1>2, <1>4 DEF WithClients

\* And a file that has clients was there, with them, when the build began.
LEMMA ClientsWereThere ==
  ASSUME TypeOK, NoClash, KeptOrWritten, NEW m \in WithClients(disk)
  PROVE  m \in WithClients(start) /\ disk[m] = start[m]
<1>1. /\ m \in DOMAIN disk /\ m.ext = "rs" /\ m.stem \in Idents /\ disk[m].kind = "code"
      /\ WellFormed(disk[m]) /\ ~NoClients(disk[m])
  BY DEF WithClients
<1>2. ASSUME NEW k \in WithClients(start), disk[m] = generate_pooled_version(start[k])
      PROVE  FALSE
  <2>1. start[k] \in File
    BY DEF WithClients, TypeOK, IsDirectory
  <2> QED
    BY <1>1, <1>2, <2>1, PooledVersionHasNoClients
<1>3. m \in DOMAIN start /\ disk[m] = start[m]
  BY <1>1, <1>2 DEF KeptOrWritten
<1> QED
  BY <1>1, <1>3 DEF WithClients

\* A write keeps the invariant's parts about files (build_clients), for a
\* listing that has returned at most this entry more.
LEMMA WriteKeeps ==
  ASSUME IInv, NEW name \in Name, Outcome(name) = "Ok", Write(name), UNCHANGED start
  PROVE  /\ CreatedHaveNoClients'
         /\ KeptOrWritten'
         /\ pc = "all" =>
              \A n \in (listed \cup {name}) \cap WithClients(disk') : UpToDateIn(disk', n)
<1> DEFINE src == rs(name)
           new == Pooled(src)
<1>1. TypeOK
  BY DEF IInv
<1>2. /\ src \in WithClients(disk) /\ src \in Name /\ new \in Name
      /\ DOMAIN disk' = DOMAIN disk \cup {new}
      /\ disk'[new] = generate_pooled_version(disk[src])
      /\ NoClients(disk'[new])
      /\ \A n \in DOMAIN disk : n # new => disk'[n] = disk[n]
  BY <1>1, WriteFacts
<1> HIDE DEF src, new
<1>3. CreatedHaveNoClients'
  <2>1. \A n \in DOMAIN disk' \ DOMAIN start : NoClients(disk'[n])
    BY <1>2 DEF IInv, CreatedHaveNoClients
  <2> QED
    BY <2>1 DEF CreatedHaveNoClients
<1>4. KeptOrWritten'
  <2> SUFFICES ASSUME NoClash, NEW n \in DOMAIN disk'
               PROVE  \/ n \in DOMAIN start /\ disk'[n] = start[n]
                      \/ \E m \in WithClients(start) :
                           n = Pooled(m) /\ disk'[n] = generate_pooled_version(start[m])
    BY DEF KeptOrWritten, NoClash
  <2>1. src \in WithClients(start) /\ disk[src] = start[src]
    BY <1>1, <1>2, ClientsWereThere DEF IInv
  <2>2. CASE n = new
    BY <1>2, <2>1, <2>2 DEF new
  <2>3. CASE n # new
    <3>1. n \in DOMAIN disk /\ disk'[n] = disk[n]
      BY <1>2, <2>3
    <3> QED
      BY <3>1 DEF IInv, KeptOrWritten
  <2> QED
    BY <2>2, <2>3
<1>5. ASSUME pc = "all", NEW n \in (listed \cup {name}) \cap WithClients(disk')
      PROVE  UpToDateIn(disk', n)
  <2>1. n \in WithClients(disk) /\ disk'[n] = disk[n]
    BY <1>1, WriteMakesNoClients
  <2>2. n \in Name /\ n.ext = "rs"
    BY <1>1, <2>1 DEF WithClients, TypeOK, IsDirectory
  <2>3. CASE n = src
    BY <1>2, <2>1, <2>3 DEF UpToDateIn, new
  <2>4. CASE n # src
    <3>1. n # name
      BY <2>2, <2>4, NameFacts DEF src
    <3>2. Pooled(n) \in DOMAIN disk /\ disk[Pooled(n)] = generate_pooled_version(disk[n])
      BY <1>5, <2>1, <3>1 DEF IInv, ListedUpToDate, UpToDateIn
    <3>3. Pooled(n) # new
      BY <1>2, <2>2, <2>4, NameFacts DEF new
    <3>4. Pooled(n) \in DOMAIN disk' /\ disk'[Pooled(n)] = disk[Pooled(n)]
      BY <1>2, <3>2, <3>3
    <3> QED
      BY <2>1, <3>2, <3>4 DEF UpToDateIn
  <2> QED
    BY <2>3, <2>4
<1> QED
  BY <1>3, <1>4, <1>5

\* In the listing, an entry that is skipped or has no clients found in it is no
\* client file (build_all_clients).
LEMMA SkippedHasNoClients ==
  ASSUME TypeOK, NEW name \in DOMAIN disk,
         (IF disk[name].kind = "dir" \/ name.ext = "txt" THEN "skip" ELSE Outcome(name))
           \in {"skip", "GrpcClientNotFound"}
  PROVE  name \notin WithClients(disk)
<1> SUFFICES ASSUME name \in WithClients(disk) PROVE FALSE
  OBVIOUS
<1>1. name \in Name
  BY DEF TypeOK, IsDirectory
<1>2. Outcome(name) \in {"Ok", "panic"}
  BY <1>1, OutcomeFacts
<1>3. disk[name].kind = "code" /\ name.ext = "rs"
  BY DEF WithClients
<1> QED
  BY <1>2, <1>3

\* What build_clients returns when it fails.
LEMMA OutcomeType ==
  ASSUME NEW name
  PROVE  Outcome(name) \in BuilderError \cup {"Ok", "panic"}
  BY DEF Outcome, BuilderError

\* A build that returns, or starts, leaves the files as they are.
LEMMA ReturnKeeps ==
  ASSUME IInv, NEW result \in BuilderError \cup {"Ok", "panic"}, Return(result),
         UNCHANGED <<disk, start, builds>>
  PROVE  IInv'
<1>1. TypeOK'
  BY DEF IInv, TypeOK, IsDirectory, Return
<1>2. CreatedHaveNoClients' /\ KeptOrWritten'
  BY DEF IInv, CreatedHaveNoClients, KeptOrWritten, NoClash
<1>3. pc' = "idle" /\ listed' = {}
  BY DEF Return
<1> QED
  BY <1>1, <1>2, <1>3 DEF IInv, ListedUpToDate

\* At the start of a build the directory is its own start.
LEMMA StartKeeps ==
  ASSUME IInv, UNCHANGED disk, start' = disk
  PROVE  CreatedHaveNoClients' /\ KeptOrWritten'
  BY DEF CreatedHaveNoClients, KeptOrWritten

\* The directories the user may start with satisfy the invariant.
LEMMA InitInvariant == Init => IInv
<1> SUFFICES ASSUME Init PROVE IInv
  OBVIOUS
<1>1. IsDirectory(disk)
  BY SourcesAssumption DEF Init
<1>2. TypeOK
  BY <1>1, MaxBuildsAssumption DEF Init, TypeOK
<1> QED
  BY <1>2 DEF Init, IInv, CreatedHaveNoClients, KeptOrWritten, ListedUpToDate

\* Every step of a build keeps the invariant.
LEMMA NextInvariant == IInv /\ [Next]_vars => IInv'
<1> SUFFICES ASSUME IInv, [Next]_vars PROVE IInv'
  OBVIOUS
<1>t. TypeOK /\ DOMAIN disk \subseteq Name
  BY DEF IInv, TypeOK, IsDirectory
<1>1. CASE NotConfigured
  <2>1. TypeOK'
    BY <1>1, <1>t, MaxBuildsAssumption DEF NotConfigured, Return, TypeOK, IsDirectory, BuilderError
  <2>2. CreatedHaveNoClients' /\ KeptOrWritten'
    BY <1>1, StartKeeps DEF NotConfigured
  <2>3. pc' = "idle" /\ listed' = {}
    BY <1>1 DEF NotConfigured, Return
  <2> QED
    BY <2>1, <2>2, <2>3 DEF IInv, ListedUpToDate
<1>2. ASSUME NEW mode \in {"some", "all"}, NEW services \in SUBSET DOMAIN disk,
             mode = "all" => services = DOMAIN disk, Begin(mode, services)
      PROVE  IInv'
  <2>1. TypeOK'
    BY <1>2, <1>t, MaxBuildsAssumption DEF Begin, TypeOK, IsDirectory
  <2>2. CreatedHaveNoClients' /\ KeptOrWritten'
    BY <1>2, StartKeeps DEF Begin
  <2>3. pc' = "all" => todo' = DOMAIN start'
    BY <1>2 DEF Begin
  <2>4. listed' = {}
    BY <1>2 DEF Begin, IInv
  <2> QED
    BY <2>1, <2>2, <2>3, <2>4 DEF IInv, ListedUpToDate
<1>3. ASSUME NEW name \in DOMAIN disk, build_clients(name)
      PROVE  IInv'
  <2>1. CASE Outcome(name) = "Ok"
    <3>1. /\ Write(name) /\ pc = "some" /\ UNCHANGED <<pc, out, listed, start, builds>>
          /\ todo' \subseteq todo
      BY <1>3, <2>1 DEF build_clients
    <3>2. TypeOK'
      BY <1>t, <2>1, <3>1, WriteFacts DEF TypeOK, IsDirectory
    <3>3. CreatedHaveNoClients' /\ KeptOrWritten'
      BY <1>t, <2>1, <3>1, WriteKeeps
    <3> QED
      BY <3>1, <3>2, <3>3 DEF IInv, ListedUpToDate
  <2>2. CASE Outcome(name) # "Ok"
    BY <1>3, <2>2, OutcomeType, ReturnKeeps DEF build_clients
  <2> QED
    BY <2>1, <2>2
<1>4. ASSUME NEW name \in DOMAIN disk, list(name)
      PROVE  IInv'
  <2> DEFINE outcome ==
        IF disk[name].kind = "dir" \/ name.ext = "txt" THEN "skip" ELSE Outcome(name)
  <2>1. CASE outcome = "Ok"
    <3>1. /\ Write(name) /\ pc = "all" /\ UNCHANGED <<pc, out, todo, start, builds>>
          /\ listed' = listed \cup {name}
      BY <1>4, <2>1 DEF list
    <3>2. Outcome(name) = "Ok"
      BY <2>1
    <3>3. TypeOK'
      BY <1>t, <3>1, <3>2, WriteFacts DEF TypeOK, IsDirectory
    <3>4. /\ CreatedHaveNoClients' /\ KeptOrWritten'
          /\ \A n \in (listed \cup {name}) \cap WithClients(disk') : UpToDateIn(disk', n)
      BY <1>t, <3>1, <3>2, WriteKeeps
    <3>5. ListedUpToDate'
      BY <3>1, <3>4 DEF ListedUpToDate
    <3> QED
      BY <3>1, <3>3, <3>4, <3>5 DEF IInv
  <2>2. CASE outcome \in {"skip", "GrpcClientNotFound"}
    <3>1. /\ pc = "all" /\ UNCHANGED <<disk, pc, out, todo, start, builds>>
          /\ listed' = listed \cup {name}
      BY <1>4, <2>2 DEF list
    <3>2. TypeOK'
      BY <1>t, <3>1 DEF TypeOK, IsDirectory
    <3>3. CreatedHaveNoClients' /\ KeptOrWritten'
      BY <3>1 DEF IInv, CreatedHaveNoClients, KeptOrWritten, NoClash
    <3>4. name \notin WithClients(disk)
      BY <1>t, <2>2, SkippedHasNoClients
    <3>5. ListedUpToDate'
      BY <3>1, <3>4 DEF IInv, ListedUpToDate
    <3> QED
      BY <3>1, <3>2, <3>3, <3>5 DEF IInv
  <2>3. CASE outcome \notin {"Ok", "skip", "GrpcClientNotFound"}
    <3>1. Return(outcome) /\ UNCHANGED <<disk, start, builds>>
      BY <1>4, <2>3 DEF list
    <3>2. outcome \in BuilderError \cup {"Ok", "panic"}
      BY <2>3, OutcomeType
    <3> QED
      BY <3>1, <3>2, ReturnKeeps
  <2> QED
    BY <2>1, <2>2, <2>3
<1>5. CASE Finish
  BY <1>5, ReturnKeeps DEF Finish
<1>6. CASE UNCHANGED vars
  <2>1. TypeOK' /\ CreatedHaveNoClients' /\ KeptOrWritten' /\ ListedUpToDate'
    BY <1>6 DEF vars, IInv, TypeOK, IsDirectory, CreatedHaveNoClients, KeptOrWritten, NoClash,
                ListedUpToDate
  <2> QED
    BY <1>6, <2>1 DEF vars, IInv
<1> QED
  BY <1>1, <1>2, <1>3, <1>4, <1>5, <1>6 DEF Next

\* The invariant holds in every state of every build.
THEOREM Invariant == Spec => []IInv
  BY InitInvariant, NextInvariant, PTL DEF Spec

-----------------------------------------------------------------------------
(* What follows.                                                           *)

\* The directory stays one of named files, the entries to do and those
\* returned are in it, and a build returns a BuilderError or panics
\* (build_clients, build_all_clients).
THEOREM TypeCorrect == Spec => []TypeOK
<1>1. IInv => TypeOK
  BY DEF IInv
<1> QED
  BY <1>1, Invariant, PTL

\* What the target directory has: for a source and its pooled version, and for
\* any other file.
LEMMA TargetFacts ==
  ASSUME NEW d, IsDirectory(d)
  PROVE  /\ DOMAIN Target(d) = DOMAIN d \cup {Pooled(m) : m \in WithClients(d)}
         /\ \A m \in WithClients(d) : Target(d)[Pooled(m)] = generate_pooled_version(d[m])
         /\ \A n \in DOMAIN d :
              (~\E m \in WithClients(d) : n = Pooled(m)) => Target(d)[n] = d[n]
<1>1. DOMAIN Target(d) = DOMAIN d \cup {Pooled(m) : m \in WithClients(d)}
  BY DEF Target
<1>2. ASSUME NEW m \in WithClients(d)
      PROVE  Target(d)[Pooled(m)] = generate_pooled_version(d[m])
  <2> DEFINE chosen == CHOOSE k \in WithClients(d) : Pooled(m) = Pooled(k)
  <2>1. chosen \in WithClients(d) /\ Pooled(m) = Pooled(chosen)
    OBVIOUS
  <2>2. m \in Name /\ chosen \in Name
    BY <2>1 DEF WithClients, IsDirectory
  <2>3. Target(d)[Pooled(m)] = generate_pooled_version(d[chosen])
    BY <2>1 DEF Target
  <2> HIDE DEF chosen
  <2>4. chosen = m
    BY <2>1, <2>2, NameFacts
  <2> QED
    BY <2>3, <2>4
<1>3. ASSUME NEW n \in DOMAIN d, ~\E m \in WithClients(d) : n = Pooled(m)
      PROVE  Target(d)[n] = d[n]
  BY <1>3 DEF Target
<1> QED
  BY <1>1, <1>2, <1>3

\* A build that fails half-way, or of some files only, has written nothing but
\* pooled versions that a full build would write (build_clients, and the early
\* return of build_all_clients).
THEOREM UserFilesUntouched == Spec => []OnlyPooledWritten
<1>1. ASSUME IInv PROVE OnlyPooledWritten
  <2> SUFFICES ASSUME NoClash, NEW n \in DOMAIN disk
               PROVE  /\ n \in DOMAIN Target(start)
                      /\ \/ n \in DOMAIN start /\ disk[n] = start[n]
                         \/ disk[n] = Target(start)[n]
    BY DEF OnlyPooledWritten
  <2>1. IsDirectory(start)
    BY <1>1 DEF IInv, TypeOK
  <2>2. \/ n \in DOMAIN start /\ disk[n] = start[n]
        \/ \E m \in WithClients(start) :
             n = Pooled(m) /\ disk[n] = generate_pooled_version(start[m])
    BY <1>1 DEF IInv, KeptOrWritten
  <2> QED
    BY <2>1, <2>2, TargetFacts
<1> QED
  BY <1>1, Invariant, PTL

\* When build_all_clients has seen what was there from the start, every client
\* file has the pooled version of what is in it, also if it overwrote another.
THEOREM PooledFilesUpToDate == Spec => []UpToDate
<1>1. ASSUME IInv PROVE UpToDate
  <2> SUFFICES ASSUME pc = "all", todo \subseteq listed, NEW n \in WithClients(disk)
               PROVE  UpToDateIn(disk, n)
    BY DEF UpToDate, UpToDateIn
  <2>1. n \in DOMAIN disk /\ ~NoClients(disk[n])
    BY DEF WithClients
  <2>2. n \in DOMAIN start
    BY <1>1, <2>1 DEF IInv, CreatedHaveNoClients
  <2>3. n \in listed
    BY <1>1, <2>2 DEF IInv
  <2> QED
    BY <1>1, <2>3 DEF IInv, ListedUpToDate
<1> QED
  BY <1>1, Invariant, PTL

\* build_all_clients ends with the target directory: a pooled version of every
\* client file, and of no other, its own files included.
THEOREM BuildsAll == Spec => []AllBuilt
<1>1. ASSUME IInv PROVE AllBuilt
  <2> SUFFICES ASSUME NoClash, pc = "all", todo \subseteq listed
               PROVE  disk = Target(start)
    BY DEF AllBuilt
  <2>1. TypeOK /\ KeptOrWritten /\ IsDirectory(start)
    BY <1>1 DEF IInv, TypeOK
  <2>2. ASSUME NEW m \in WithClients(start)
        PROVE  Pooled(m) \in DOMAIN disk /\ disk[Pooled(m)] = generate_pooled_version(start[m])
    <3>1. m \in DOMAIN start /\ disk[m] = start[m] /\ m \in WithClients(disk)
      BY <2>1, SourcesKept
    <3>2. m \in listed
      BY <1>1, <3>1 DEF IInv
    <3> QED
      BY <1>1, <3>1, <3>2 DEF IInv, ListedUpToDate, UpToDateIn
  <2>3. \A n \in DOMAIN disk :
          \/ n \in DOMAIN start /\ disk[n] = start[n]
          \/ \E m \in WithClients(start) : n = Pooled(m)
    BY <2>1 DEF KeptOrWritten
  <2>4. DOMAIN start \subseteq DOMAIN disk
    BY <2>1 DEF TypeOK
  <2>5. DOMAIN disk = DOMAIN Target(start)
    BY <2>1, <2>2, <2>3, <2>4, TargetFacts
  <2>6. ASSUME NEW n \in DOMAIN disk
        PROVE  disk[n] = Target(start)[n]
    <3>1. CASE \E m \in WithClients(start) : n = Pooled(m)
      BY <2>1, <2>2, <3>1, TargetFacts
    <3>2. CASE ~\E m \in WithClients(start) : n = Pooled(m)
      BY <2>1, <2>3, <3>2, TargetFacts
    <3> QED
      BY <3>1, <3>2
  <2>7. disk = [n \in DOMAIN disk |-> disk[n]]
    BY <2>1 DEF TypeOK, IsDirectory
  <2>8. Target(start) = [n \in DOMAIN Target(start) |-> Target(start)[n]]
    BY DEF Target
  <2> QED
    BY <2>5, <2>6, <2>7, <2>8, Zenon
<1> QED
  BY <1>1, Invariant, PTL

\* Building again makes no change: a second build_all_clients, of the directory
\* that the first has left, has that directory as its target; also when one pooled version took the
\* place of another client file.
THEOREM BuildingAgainChangesNothing ==
  ASSUME NEW d, IsDirectory(d)
  PROVE  IsDirectory(Target(d)) /\ Target(Target(d)) = Target(d)
<1> DEFINE t == Target(d)
<1>1. /\ DOMAIN t = DOMAIN d \cup {Pooled(m) : m \in WithClients(d)}
      /\ \A m \in WithClients(d) : t[Pooled(m)] = generate_pooled_version(d[m])
      /\ \A n \in DOMAIN d : (~\E m \in WithClients(d) : n = Pooled(m)) => t[n] = d[n]
  BY TargetFacts
<1>2. t = [n \in DOMAIN t |-> t[n]]
  BY DEF Target
<1>3. /\ DOMAIN d \subseteq Name /\ \A n \in DOMAIN d : d[n] \in File
      /\ WithClients(d) \subseteq DOMAIN d
  BY DEF IsDirectory, WithClients
<1> HIDE DEF t
<1>4. ASSUME NEW m \in WithClients(d)
      PROVE  /\ Pooled(m) \in Name /\ t[Pooled(m)] \in File /\ NoClients(t[Pooled(m)])
  <2>1. m \in Name /\ d[m] \in File
    BY <1>3
  <2> QED
    BY <1>1, <2>1, NameFacts, PooledVersionHasNoClients
<1>5. IsDirectory(t)
  <2>1. DOMAIN t \subseteq Name
    BY <1>1, <1>3, <1>4
  <2>2. ASSUME NEW n \in DOMAIN t PROVE t[n] \in File
    <3>1. CASE \E m \in WithClients(d) : n = Pooled(m)
      BY <1>4, <3>1
    <3>2. CASE ~\E m \in WithClients(d) : n = Pooled(m)
      <4>1. n \in DOMAIN d
        BY <1>1, <3>2
      <4> QED
        BY <1>1, <1>3, <3>2, <4>1
    <3> QED
      BY <3>1, <3>2
  <2> QED
    BY <1>2, <2>1, <2>2 DEF IsDirectory
<1>6. ASSUME NEW n \in WithClients(t)
      PROVE  n \in WithClients(d) /\ t[n] = d[n]
  <2>1. /\ n \in DOMAIN t /\ n.ext = "rs" /\ n.stem \in Idents /\ t[n].kind = "code"
        /\ WellFormed(t[n]) /\ ~NoClients(t[n])
    BY DEF WithClients
  <2>2. ~\E m \in WithClients(d) : n = Pooled(m)
    BY <1>4, <2>1
  <2>3. n \in DOMAIN d /\ t[n] = d[n]
    BY <1>1, <2>1, <2>2
  <2> QED
    BY <2>1, <2>3 DEF WithClients
<1> DEFINE tt == Target(t)
<1>7. /\ DOMAIN tt = DOMAIN t \cup {Pooled(m) : m \in WithClients(t)}
      /\ \A m \in WithClients(t) : tt[Pooled(m)] = generate_pooled_version(t[m])
      /\ \A n \in DOMAIN t : (~\E m \in WithClients(t) : n = Pooled(m)) => tt[n] = t[n]
  BY <1>5, TargetFacts
<1>8. tt = [n \in DOMAIN tt |-> tt[n]]
  BY DEF Target
<1> HIDE DEF tt
<1>9. DOMAIN tt = DOMAIN t
  BY <1>1, <1>6, <1>7
<1>10. ASSUME NEW n \in DOMAIN t PROVE tt[n] = t[n]
  <2>1. CASE \E m \in WithClients(t) : n = Pooled(m)
    <3>1. PICK m \in WithClients(t) : n = Pooled(m)
      BY <2>1
    <3>2. m \in WithClients(d) /\ t[m] = d[m]
      BY <1>6
    <3> QED
      BY <1>1, <1>7, <3>1, <3>2
  <2>2. CASE ~\E m \in WithClients(t) : n = Pooled(m)
    BY <1>7, <2>2
  <2> QED
    BY <2>1, <2>2
<1>11. tt = t
  BY <1>2, <1>8, <1>9, <1>10, Zenon
<1> QED
  BY <1>5, <1>11 DEF t, tt


=============================================================================
