---------------------------- MODULE Configuration ----------------------------
(***************************************************************************)
(* The service's configuration (common/model/configuration.cpp): default   *)
(* values, environment variables, the JSON file and the options of         *)
(* loadConfig (service/main.cpp).                                          *)
(*                                                                         *)
(* A source gives every setting a value or leaves it Unset.  The objects   *)
(* are told apart, because loadFromFile replaces the holder's object while *)
(* loadConfig keeps a reference to the one it was given first.             *)
(***************************************************************************)
EXTENDS Integers, Sequences, FiniteSets

CONSTANTS Setting,    \* names of the settings that are not peers
          Default,    \* the struct's initialisers
          Unset       \* a source says nothing about the setting

Level == {"debug", "info", "warn", "critical"}

\* Settings no environment variable is read for.
NoVariable == {"caCertificate", "certificate", "sslKey", "ssl"}

\* The environment: a value per variable, and the hosts and ports of the
\* numbered peers.  A level that is not one of the four is not taken; the
\* variable for the directory is assigned to the level.
FromEnvironment(env, s) ==
    CASE s \in NoVariable -> Unset
      [] s = "dir"        -> Unset
      [] s = "level" /\ env.set["dir"] # Unset -> env.set["dir"]
      [] s = "level" /\ env.set[s] \notin Level -> Unset
      [] OTHER            -> env.set[s]

\* Peer n is taken if peers 0 to n - 1 were; its port may be missing.
EnvironmentPeers(env) ==
    LET taken == {n \in 0..6 : \A m \in 0..n : m \in env.hosts}
    IN [i \in 1..Cardinality(taken) |->
           [host |-> TRUE, port |-> (i - 1) \in env.ports]]

Over(value, beneath) == IF value = Unset THEN beneath ELSE value

\* The constructor.
NewConfiguration(env) ==
    [set   |-> [s \in Setting |-> Over(FromEnvironment(env, s), Default[s])],
     peers |-> EnvironmentPeers(env)]

\* loadFromFile: the file over a new object; peers of the file that have a
\* host and a port come after those of the environment.
FromFile(env, file) ==
    LET new == NewConfiguration(env)
        Complete(p) == p.host /\ p.port
    IN [set   |-> [s \in Setting |-> Over(file.set[s], new.set[s])],
        peers |-> new.peers \o SelectSeq(file.peers, Complete)]

\* The options are bound to the fields of an object and overwrite them.
WithOptions(c, options) ==
    [c EXCEPT !.set = [s \in Setting |-> Over(options.set[s], c.set[s])]]

\* An entry of --peers that is not host:port is left out.
WithPeers(c, options) ==
    LET Complete(p) == p.host /\ p.port
    IN [c EXCEPT !.peers = @ \o SelectSeq(options.peers, Complete)]
=============================================================================
