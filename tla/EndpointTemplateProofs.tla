------------------------ MODULE EndpointTemplateProofs ------------------------
(***************************************************************************)
(* EndpointTemplate for any addresses, any values and any number of calls  *)
(* of the setters: each setting reaches the endpoint, and what the         *)
(* constructor and the setters check holds when build relies on it.        *)
(***************************************************************************)
EXTENDS EndpointTemplate, TLAPS

\* Every setting goes into a field of its own, and build takes each field to
\* the method of the name it was set by.
LEMMA FieldOf == \A s \in Setters : field(s) \in Fields /\ method(field(s)) = s
BY DEF Setters, PlainSetters, SomeSetters, Http2Setters, OptionSetters, field, Renamed, Fields, method

\* Conversely, the setter of the method's name assigns the field.
LEMMA MethodOf == \A f \in Fields : field(method(f)) = f
BY DEF field, Renamed, Fields, method
\* Only "tls_config" is stored as a TLS config, only "user_agent" as a header.
LEMMA OwnFields ==
  \A s \in Setters : /\ field(s) = "tls_config" <=> s = "tls_config"
                     /\ field(s) = "user_agent" <=> s = "user_agent"
BY DEF Setters, PlainSetters, SomeSetters, Http2Setters, OptionSetters, field, Renamed

-----------------------------------------------------------------------------
(* The invariant.                                                          *)

Templates == [url : Url, field : [Fields -> Values \cup Tls \cup {None}]]

\* What new and the setters have checked of a template that exists.
Checked(t) ==
  /\ t.url.host = "domain"
  /\ t.url.can_be_base
  /\ "domain" \in t.url.uri
  /\ t.field["user_agent"] # BadText
  /\ t.field["tls_config"] # None => Localhost \in t.field["tls_config"]

\* The fields hold what the setters were last given.
Stored == \A s \in Setters : template.field[field(s)] = asked[s]

TemplateInv ==
  /\ TypeOK
  /\ BuiltAsAsked
  /\ asked \in [Setters -> Values \cup Tls \cup {None}]
  /\ template # None => template \in Templates /\ Checked(template) /\ Stored

-----------------------------------------------------------------------------
\* A new endpoint has the settings that were asked for.
LEMMA SettingsAsked ==
  ASSUME TemplateInv, template # None
  PROVE  \A s \in Setters :
           settings(template)[s] = IF asked[s] # None \/ s \in HandedOn THEN asked[s] ELSE Default
<1> SUFFICES ASSUME NEW s \in Setters
             PROVE  settings(template)[s]
                      = IF asked[s] # None \/ s \in HandedOn THEN asked[s] ELSE Default
  OBVIOUS
<1>1. (CHOOSE f \in Fields : method(f) = s) = field(s)
  BY FieldOf, MethodOf
<1>2. template.field[field(s)] = asked[s]
  BY DEF TemplateInv, Stored
<1> QED
  BY <1>1, <1>2 DEF settings

\* Nothing is made, asked or built at first.
LEMMA TemplateInit == Init => TemplateInv
BY MaxCallsAssumption
   DEF Init, TemplateInv, TypeOK, BuiltAsAsked, Unasked, Fits, Errors

\* new: what it returns is what its checks let through.
LEMMA NewKeeps ==
  ASSUME NEW u \in Url \cup {NotAUrl}, New(u)
  PROVE  TemplateInv'
<1> DEFINE t == [url |-> u, field |-> [f \in Fields |-> None]]
<1>1. refusal(u) \in Errors \cup {"ok"}
  BY DEF refusal, Errors
<1>2. asked' \in [Setters -> Values \cup Tls \cup {None}] /\ (\A s \in Setters : asked'[s] = None)
  BY DEF New, Unasked
<1>3. calls' \in 0 .. MaxCalls
  BY MaxCallsAssumption DEF New
<1>4. CASE refusal(u) # "ok"
  BY <1>1, <1>2, <1>3, <1>4 DEF New, TemplateInv, TypeOK, BuiltAsAsked, Fits, Errors
<1>5. CASE refusal(u) = "ok"
  <2>1. u \in Url /\ u.host = "domain" /\ u.can_be_base /\ "domain" \in u.uri
    BY <1>5 DEF refusal, Url
  <2>2. template' = t
    BY <1>5 DEF New
  <2>3. t \in Templates
    BY <2>1 DEF Templates
  <2>4. Checked(t)
    BY <2>1, BadTextAssumption DEF Checked, Fields
  <2>5. \A f \in Fields : t.field[f] = None
    OBVIOUS
  <2>6. Stored'
    BY <1>2, <2>2, <2>5, FieldOf DEF Stored
  <2>7. TypeOK'
    BY <1>1, <1>2, <1>3, <2>1, <2>2, <2>5 DEF New, TypeOK, Fits
  <2> HIDE DEF t
  <2> QED
    BY <1>2, <2>2, <2>3, <2>4, <2>6, <2>7 DEF New, TemplateInv, BuiltAsAsked
<1> QED
  BY <1>4, <1>5

\* A setter that stores its argument.
LEMMA KeepKeeps ==
  ASSUME TemplateInv, template # None, NEW s \in Setters, NEW v, Fits(s, v), Keep(s, v),
         s = "user_agent" => v # BadText,
         s = "tls_config" => Localhost \in v,
         calls' \in 0 .. MaxCalls, built' = None, at' \in Ips \cup {None}
  PROVE  TemplateInv'
<1> DEFINE g == [template.field EXCEPT ![field(s)] = v]
<1>1. /\ template \in Templates /\ Checked(template) /\ Stored
      /\ asked \in [Setters -> Values \cup Tls \cup {None}]
  BY DEF TemplateInv
<1>2. v \in Values \cup Tls \cup {None}
  BY DEF Fits
<1>3. /\ template.url \in Url
      /\ template.field \in [Fields -> Values \cup Tls \cup {None}]
  BY <1>1 DEF Templates
<1>4. g \in [Fields -> Values \cup Tls \cup {None}]
  BY <1>2, <1>3
<1>5. template' = [url |-> template.url, field |-> g]
  BY <1>1 DEF Keep, Templates
<1>6. template'.url = template.url /\ template'.field = g /\ template' \in Templates
  BY <1>3, <1>4, <1>5 DEF Templates
<1>7. \A f \in Fields : g[f] = IF f = field(s) THEN v ELSE template.field[f]
  BY <1>3
<1>8. asked' \in [Setters -> Values \cup Tls \cup {None}]
  BY <1>1, <1>2 DEF Keep
<1>9. \A q \in Setters : asked'[q] = IF q = s THEN v ELSE asked[q]
  BY <1>1 DEF Keep
<1> HIDE DEF g
<1>10. Stored'
  BY <1>1, <1>6, <1>7, <1>9, FieldOf DEF Stored
<1>11. Checked(template')
  <2>1. "user_agent" \in Fields /\ "tls_config" \in Fields
    BY DEF Fields
  <2>2. g["user_agent"] # BadText
    BY <1>1, <1>7, <2>1, OwnFields DEF Checked
  <2>3. g["tls_config"] # None => Localhost \in g["tls_config"]
    BY <1>1, <1>7, <2>1, OwnFields DEF Checked
  <2> QED
    BY <1>1, <1>6, <2>2, <2>3 DEF Checked
<1>12. TypeOK'
  <2>1. \A f \in Fields : Fits(f, g[f])
    <3>1. \A f \in Fields : Fits(f, template.field[f])
      BY DEF TemplateInv, TypeOK
    <3>2. Fits(field(s), v)
      BY OwnFields DEF Fits
    <3> QED
      BY <1>7, <3>1, <3>2
  <2>2. \A q \in Setters : Fits(q, asked'[q])
    BY <1>9 DEF TemplateInv, TypeOK
  <2>3. DOMAIN g = Fields /\ DOMAIN asked' = Setters
    BY <1>4, <1>8
  <2> QED
    BY <1>3, <1>6, <2>1, <2>2, <2>3 DEF TypeOK, Keep, Fits
<1> QED
  BY <1>6, <1>8, <1>10, <1>11, <1>12 DEF TemplateInv, BuiltAsAsked

\* A setter that gives an error, or panics.
LEMMA RefuseKeeps ==
  ASSUME NEW e \in Errors \cup {"panic"}, Refuse(e),
         calls' \in 0 .. MaxCalls, built' = None, at' \in Ips \cup {None}
  PROVE  TemplateInv'
<1>1. /\ asked' \in [Setters -> Values \cup Tls \cup {None}]
      /\ \A s \in Setters : asked'[s] = None
  BY DEF Refuse, Unasked
<1> QED
  BY <1>1 DEF Refuse, TemplateInv, TypeOK, BuiltAsAsked, Fits

\* Any call of any setter.
LEMMA CallKeeps ==
  ASSUME TemplateInv, NEW s \in Setters, NEW v \in Arguments(s), Call(s, v)
  PROVE  TemplateInv'
<1>1. template # None /\ built' = None
  BY DEF Call
<1>2. calls' \in 0 .. MaxCalls
  <2>1. calls \in 0 .. MaxCalls
    BY DEF TemplateInv, TypeOK
  <2> QED
    BY <2>1, MaxCallsAssumption DEF Call
<1>3. CASE Plain(s, v)
  <2>1. s # "user_agent" /\ s # "tls_config" /\ s \in PlainSetters
    BY <1>3 DEF Plain, PlainSetters, SomeSetters, Http2Setters, OptionSetters
  <2>2. Fits(s, v)
    BY <2>1 DEF Arguments, Fits
  <2> QED
    BY <1>1, <1>2, <1>3, <2>1, <2>2, KeepKeeps DEF Plain
<1>4. CASE user_agent(s, v)
  <2>1. s = "user_agent" /\ s # "tls_config" /\ at' = None
    BY <1>4 DEF user_agent
  <2>2. CASE v # BadText
    <3>1. Fits(s, v)
      BY <2>1, <2>2 DEF Arguments, Fits
    <3> QED
      BY <1>1, <1>2, <1>4, <2>1, <2>2, <3>1, KeepKeeps DEF user_agent
  <2>3. CASE v = BadText
    <3>1. Refuse("InvalidUserAgent")
      BY <1>4, <2>3 DEF user_agent
    <3> QED
      BY <1>1, <1>2, <2>1, <3>1, RefuseKeeps DEF Errors
  <2> QED
    BY <2>2, <2>3
<1>5. CASE tls_config(s, v)
  <2>1. s = "tls_config" /\ s # "user_agent" /\ at' \in Ips
    BY <1>5, LocalhostAssumption DEF tls_config
  <2>2. CASE build_ok(template, Localhost) /\ Localhost \in v
    <3>1. Fits(s, v)
      BY <2>1 DEF Arguments, Fits, OptionSetters
    <3>2. Keep(s, v)
      BY <1>5, <2>2 DEF tls_config
    <3> QED
      BY <1>1, <1>2, <2>1, <2>2, <3>1, <3>2, KeepKeeps
  <2>3. CASE ~build_ok(template, Localhost)
    <3>1. Refuse("panic")
      BY <1>5, <2>3 DEF tls_config
    <3> QED
      BY <1>1, <1>2, <2>1, <3>1, RefuseKeeps
  <2>4. CASE build_ok(template, Localhost) /\ Localhost \notin v
    <3>1. Refuse("InvalidTlsConfig")
      BY <1>5, <2>4 DEF tls_config
    <3> QED
      BY <1>1, <1>2, <2>1, <3>1, RefuseKeeps DEF Errors
  <2> QED
    BY <2>2, <2>3, <2>4
<1> QED
  BY <1>3, <1>4, <1>5 DEF Call

\* build and domain leave the template as it is.
LEMMA ReadKeeps ==
  ASSUME TemplateInv, (\E ip \in Ips : build(ip)) \/ domain
  PROVE  TemplateInv'
<1>1. template # None /\ UNCHANGED <<template, asked, calls>>
  BY DEF build, domain
<1>2. /\ asked' \in [Setters -> Values \cup Tls \cup {None}]
      /\ template' # None => template' \in Templates /\ Checked(template')
  BY <1>1 DEF TemplateInv
<1>3. template' # None => Stored'
  BY <1>1 DEF TemplateInv, Stored
<1>4. at' \in Ips \cup {None} /\ result' \in {"ok", "panic"}
  BY DEF build, domain
<1>5. built' = None \/ built' = settings(template)
  BY DEF build, domain
<1>6. \A s \in Setters : Fits(s, asked[s])
  BY DEF TemplateInv, TypeOK
<1>7. built' # None => \A s \in Setters : built'[s] = Default \/ Fits(s, built'[s])
  BY <1>1, <1>5, <1>6, SettingsAsked
<1>8. built' # None => DOMAIN built' = Setters
  BY <1>5 DEF settings
<1>9. BuiltAsAsked'
  BY <1>1, <1>5, SettingsAsked DEF BuiltAsAsked
<1>10. TypeOK'
  BY <1>1, <1>4, <1>7, <1>8 DEF TypeOK, TemplateInv
<1> QED
  BY <1>2, <1>3, <1>9, <1>10 DEF TemplateInv

\* Every call keeps the invariant.
LEMMA TemplateStep == TemplateInv /\ [Next]_vars => TemplateInv'
<1> SUFFICES ASSUME TemplateInv, [Next]_vars
             PROVE  TemplateInv'
  OBVIOUS
<1>1. CASE UNCHANGED vars
  <2>1. UNCHANGED <<template, asked, calls, at, built, result>>
    BY <1>1 DEF vars
  <2> QED
    BY <2>1 DEF TemplateInv, TypeOK, BuiltAsAsked, Stored
<1>2. CASE \E u \in Url \cup {NotAUrl} : New(u)
  BY <1>2, NewKeeps
<1>3. CASE \E s \in Setters : \E v \in Arguments(s) : Call(s, v)
  BY <1>3, CallKeeps
<1>4. CASE (\E ip \in Ips : build(ip)) \/ domain
  BY <1>4, ReadKeeps
<1> QED
  BY <1>1, <1>2, <1>3, <1>4 DEF Next

-----------------------------------------------------------------------------
\* The template that a caller holds, if it holds one, has passed the checks of
\* new and of the setters, and its fields are what the setters were given.
THEOREM TemplateInvariant == Spec => []TemplateInv
BY TemplateInit, TemplateStep, PTL DEF Spec

\* No call, in any order, leaves a field, a setting of an endpoint or a result
\* that does not fit its type.
THEOREM TypeCorrect == Spec => []TypeOK
<1>1. TemplateInv => TypeOK
  BY DEF TemplateInv
<1> QED
  BY <1>1, TemplateInvariant, PTL

\* Every endpoint that build makes has in each setting what the setter of that
\* name was last given, whatever was called before and in whatever order.
THEOREM SettingsReachEndpoint == Spec => []BuiltAsAsked
<1>1. TemplateInv => BuiltAsAsked
  BY DEF TemplateInv
<1> QED
  BY <1>1, TemplateInvariant, PTL

\* An expect() of build, domain or tls_config fails only for an address that
\* the check before it was not made with.
THEOREM PanicsOnlyForUntested == Spec => PanicsOnlyUntested
<1> DEFINE Excused ==
      \/ at' \in Ips \ template.url.uri /\ "domain" \in template.url.uri
      \/ /\ template.field["tls_config"] # None
         /\ Localhost \in template.field["tls_config"]
         /\ at' \in Ips \ template.field["tls_config"]
<1>1. ASSUME TemplateInv, template # None, NEW ip \in Ips, ~build_ok(template, ip), at' = ip
      PROVE  Excused
  BY <1>1 DEF TemplateInv, Checked, build_ok, build_uri_ok
<1>2. TemplateInv /\ Next /\ result' = "panic" => Excused
  <2> SUFFICES ASSUME TemplateInv, Next, result' = "panic"
               PROVE  Excused
    OBVIOUS
  <2> HIDE DEF Excused
  <2>1. ASSUME NEW u \in Url \cup {NotAUrl}, New(u)
        PROVE  FALSE
    BY <2>1 DEF New, refusal
  <2>2. ASSUME NEW s \in Setters, NEW v \in Arguments(s), Call(s, v)
        PROVE  Excused
    <3>1. template # None /\ (Plain(s, v) \/ user_agent(s, v) \/ tls_config(s, v))
      BY <2>2 DEF Call
    <3>2. ~Plain(s, v) /\ ~user_agent(s, v)
      BY DEF Plain, user_agent, Keep, Refuse
    <3>3. at' = Localhost /\ ~build_ok(template, Localhost)
      BY <3>1, <3>2 DEF tls_config, Keep, Refuse
    <3> QED
      BY <1>1, <3>1, <3>3, LocalhostAssumption
  <2>3. ASSUME NEW ip \in Ips, build(ip)
        PROVE  Excused
    BY <1>1, <2>3 DEF build
  <2>4. ~domain
    BY DEF domain, TemplateInv, Checked
  <2> QED
    BY <2>1, <2>2, <2>3, <2>4 DEF Next
<1>3. TemplateInv /\ [Next]_vars => [result' = "panic" => Excused]_vars
  BY <1>2
<1> QED
  BY <1>3, TemplateInvariant, PTL DEF Spec, PanicsOnlyUntested


=============================================================================
