--------------------------- MODULE EndpointTemplate ---------------------------
(***************************************************************************)
(* The template the pool builds its endpoints from                         *)
(* (soda-pool/src/endpoint_template.rs): its constructor, its setters in   *)
(* any order, and build, which the pool calls for every address it learns. *)
(* What is checked when the template is made is relied on, with expect(),  *)
(* when an endpoint is built.                                              *)
(*                                                                         *)
(* url, http and tonic are external; what they accept is data: a URL is    *)
(* what new asks about it and the hosts with which its text is a Uri, a    *)
(* ClientTlsConfig is the set of addresses of endpoints that take it.      *)
(***************************************************************************)
EXTENDS Naturals

CONSTANTS
  Ips,        (* IP addresses                                              *)
  Localhost,  (* Ipv4Addr::LOCALHOST                                       *)
  Values,     (* values given to setters                                   *)
  BadText,    (* a user agent that is no HeaderValue                       *)
  NotAUrl,    (* a text that is no URL                                     *)
  None,       (* Option::None, and the absence of a template or endpoint   *)
  Default,    (* the value tonic gives to what is not set                  *)
  MaxCalls    (* bound: setters called on one template                     *)

ASSUME LocalhostAssumption == Localhost \in Ips
ASSUME BadTextAssumption == BadText # None
ASSUME MaxCallsAssumption == MaxCalls \in Nat

VARIABLES
  template,  (* the EndpointTemplate, or None                              *)
  asked,     (* history: what each setter was last called with             *)
  calls,     (* how many setters were called                               *)
  at,        (* the address of the last call if it built an endpoint       *)
  built,     (* the settings of that endpoint, or None                     *)
  result     (* what came of the last call                                 *)

vars == <<template, asked, calls, at, built, result>>

-----------------------------------------------------------------------------
Url == [host : {"domain", "ip", "none"}, can_be_base : BOOLEAN,
        uri : SUBSET (Ips \cup {"domain"})]

\* tonic takes a TLS config for the address of an endpoint, or does not; that it
\* asks for nothing else, such as what was set since, is assumed of tonic.
Tls == SUBSET Ips

\* Setters that store Some of their argument, and those that take an Option
\* and so can also unset.
SomeSetters ==
  {"origin", "timeout", "connect_timeout", "tcp_keepalive_interval",
   "tcp_keepalive_retries", "concurrency_limit", "rate_limit"}
Http2Setters ==
  {"tcp_nodelay", "http2_keep_alive_interval", "keep_alive_timeout",
   "keep_alive_while_idle", "http2_adaptive_window", "http2_max_header_list_size"}
OptionSetters ==
  {"tcp_keepalive", "initial_stream_window_size", "initial_connection_window_size",
   "buffer_size", "local_address"}
PlainSetters == SomeSetters \cup Http2Setters \cup OptionSetters
Setters == PlainSetters \cup {"user_agent", "tls_config"}

Arguments(s) ==
  CASE s = "user_agent" -> Values \cup {BadText}
    [] s = "tls_config" -> Tls
    [] s \in OptionSetters -> Values \cup {None}
    [] OTHER -> Values

\* Setters whose field has another name.
Renamed == [initial_stream_window_size     |-> "init_stream_window_size",
            initial_connection_window_size |-> "init_connection_window_size",
            keep_alive_timeout             |-> "http2_keep_alive_timeout",
            keep_alive_while_idle          |-> "http2_keep_alive_while_idle"]

\* Mutant: one window size is stored as the other.
field_pasted(s) == IF s = "initial_connection_window_size" THEN "init_stream_window_size"
                   ELSE IF s \in DOMAIN Renamed THEN Renamed[s] ELSE s

\* The field that a setter assigns.
field(s) == IF s \in DOMAIN Renamed THEN Renamed[s] ELSE s

\* The fields of EndpointTemplate next to url.
Fields ==
  {"origin", "user_agent", "timeout", "concurrency_limit", "rate_limit", "tls_config",
   "buffer_size", "init_stream_window_size", "init_connection_window_size",
   "tcp_keepalive", "tcp_keepalive_interval", "tcp_keepalive_retries", "tcp_nodelay",
   "http2_keep_alive_interval", "http2_keep_alive_timeout",
   "http2_keep_alive_while_idle", "http2_max_header_list_size", "connect_timeout",
   "http2_adaptive_window", "local_address"}

\* The method of Endpoint that build hands a field to.
method(f) ==
  CASE f = "init_stream_window_size"     -> "initial_stream_window_size"
    [] f = "init_connection_window_size" -> "initial_connection_window_size"
    [] f = "http2_keep_alive_timeout"    -> "keep_alive_timeout"
    [] f = "http2_keep_alive_while_idle" -> "keep_alive_while_idle"
    [] OTHER -> f

\* What build hands on even when it is None.
HandedOn == {"tcp_keepalive", "tcp_keepalive_interval", "tcp_keepalive_retries",
             "buffer_size", "local_address"}

\* What a setting, or the field of that name, can hold.
Fits(s, v) == v = None \/ v \in (IF s = "tls_config" THEN Tls ELSE Values)

Errors == {"NotAUrl", "HostMissing", "AlreadyIpAddress", "Inconvertible",
           "InvalidUserAgent", "InvalidTlsConfig"}

\* Spelled out per part: the functions would be too many to enumerate.
TypeOK ==
  /\ template = None \/ (/\ template.url \in Url
                         /\ DOMAIN template.field = Fields
                         /\ \A f \in Fields : Fits(f, template.field[f]))
  /\ DOMAIN asked = Setters /\ \A s \in Setters : Fits(s, asked[s])
  /\ calls \in 0 .. MaxCalls
  /\ at \in Ips \cup {None}
  /\ built = None \/ (/\ DOMAIN built = Setters
                      /\ \A s \in Setters : built[s] = Default \/ Fits(s, built[s]))
  /\ result \in Errors \cup {"ok", "panic"}

Unasked == [s \in Setters |-> None]

Init ==
  /\ template = None
  /\ asked = Unasked
  /\ calls = 0
  /\ at = None
  /\ built = None
  /\ result = "ok"

-----------------------------------------------------------------------------
(* The constructor.                                                        *)

\* The checks of new, in their order: the text is a URL, its host is a
\* domain, the host can be replaced, the text as it is makes a Uri.
refusal(u) ==
  IF u = NotAUrl THEN "NotAUrl"
  ELSE IF u.host = "ip" THEN "AlreadyIpAddress"
  ELSE IF u.host = "none" THEN "HostMissing"
  ELSE IF ~u.can_be_base \/ "domain" \notin u.uri THEN "Inconvertible"
  ELSE "ok"

\* new, also as TryFrom<Url>.
New(u) ==
  /\ result' = refusal(u)
  /\ template' = IF refusal(u) = "ok" THEN [url |-> u, field |-> [f \in Fields |-> None]]
                                      ELSE None
  /\ asked' = Unasked
  /\ calls' = 0
  /\ at' = None
  /\ built' = None

-----------------------------------------------------------------------------
(* build, for an address.                                                  *)

\* build_uri: the host can be replaced and the new text makes a Uri.
build_uri_ok(t, ip) == t.url.can_be_base /\ ip \in t.url.uri

\* No expect() of build fails.
build_ok(t, ip) ==
  /\ build_uri_ok(t, ip)
  /\ t.field["user_agent"] # BadText
  /\ t.field["tls_config"] # None => ip \in t.field["tls_config"]

\* What the methods of Endpoint are called with.
settings(t) ==
  [m \in Setters |-> LET v == t.field[CHOOSE f \in Fields : method(f) = m]
                     IN  IF v # None \/ m \in HandedOn THEN v ELSE Default]

build(ip) ==
  /\ template # None
  /\ at' = ip
  /\ IF build_ok(template, ip)
       THEN built' = settings(template) /\ result' = "ok"
       ELSE built' = None /\ result' = "panic"
  /\ UNCHANGED <<template, asked, calls>>

\* The name that check_dns resolves.
domain ==
  /\ template # None
  /\ result' = IF template.url.host = "domain" THEN "ok" ELSE "panic"
  /\ at' = None
  /\ built' = None
  /\ UNCHANGED <<template, asked, calls>>

-----------------------------------------------------------------------------
(* The setters take the template and give it back, or an error instead.    *)

Keep(s, v) ==
  /\ template' = [template EXCEPT !.field[field(s)] = v]
  /\ asked' = [asked EXCEPT ![s] = v]
  /\ result' = "ok"

Refuse(error) == template' = None /\ asked' = Unasked /\ result' = error

Plain(s, v) == s \in PlainSetters /\ Keep(s, v) /\ at' = None

\* Mutant: the conversion is left to build.
user_agent_unchecked(s, v) == s = "user_agent" /\ Keep(s, v) /\ at' = None

user_agent(s, v) ==
  /\ s = "user_agent"
  /\ IF v # BadText THEN Keep(s, v) ELSE Refuse("InvalidUserAgent")
  /\ at' = None

\* Mutant: the config is taken as it is.
tls_config_unchecked(s, v) == s = "tls_config" /\ Keep(s, v) /\ at' = None

\* The config is tried on an endpoint for LOCALHOST with all settings so far.
tls_config(s, v) ==
  /\ s = "tls_config"
  /\ IF ~build_ok(template, Localhost) THEN Refuse("panic")
     ELSE IF Localhost \in v THEN Keep(s, v)
     ELSE Refuse("InvalidTlsConfig")
  /\ at' = Localhost

Call(s, v) ==
  /\ template # None
  /\ calls < MaxCalls
  /\ calls' = calls + 1
  /\ built' = None
  /\ Plain(s, v) \/ user_agent(s, v) \/ tls_config(s, v)

Next ==
  \/ \E u \in Url \cup {NotAUrl} : New(u)
  \/ \E s \in Setters : \E v \in Arguments(s) : Call(s, v)
  \/ \E ip \in Ips : build(ip)
  \/ domain

Spec == Init /\ [][Next]_vars

-----------------------------------------------------------------------------
\* Whatever setters were called in whatever order, some of them again or to
\* unset, the endpoint of every address has in each setting what the setter of
\* that name was last given ("r.f. Endpoint::x"), and nothing of its own where
\* none was (a setting passes through two renamings and no getter of Endpoint
\* shows it: setters, build).
BuiltAsAsked ==
  built # None =>
    \A s \in Setters : IF asked[s] # None THEN built[s] = asked[s]
                       ELSE built[s] \in {None, Default}

\* "already checked": an expect() of build, domain or tls_config fails only for
\* an address other than the one the check was made with, namely when the URL
\* makes a Uri with its domain and not with the address, or tonic takes the TLS
\* config for 127.0.0.1 and not for the address.  No order of calls makes it
\* fail otherwise (that tonic does not look at later settings is assumed: Tls).
PanicsOnlyUntested ==
  [][result' = "panic" =>
       \/ at' \in Ips \ template.url.uri /\ "domain" \in template.url.uri
       \/ /\ template.field["tls_config"] # None
          /\ Localhost \in template.field["tls_config"]
          /\ at' \in Ips \ template.field["tls_config"]]_vars

=============================================================================
