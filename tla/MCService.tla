------------------------------ MODULE MCService ------------------------------
(* Small instances of Service. *)
EXTENDS Service

MCSetting == {"threads", "level", "dir", "http", "ssl", "maxBackups"}

MCDefault == [threads |-> 1, level |-> "info", dir |-> "logs/", http |-> "6020",
              ssl |-> "off", maxBackups |-> 1]

Nothing == [s \in MCSetting |-> Unset]

Env == [hosts |-> {}, ports |-> {}, set |-> Nothing]
File == [error |-> FALSE, peers |-> <<>>, set |-> Nothing]
Options == [error |-> FALSE, file |-> FALSE, peers |-> <<>>, set |-> Nothing]

Basic == [backupError |-> FALSE, connections |-> 1, days |-> 0, dbError |-> FALSE,
          env |-> Env, file |-> File, httpError |-> FALSE, notifierError |-> FALSE,
          options |-> Options, resolveError |-> FALSE, subscribers |-> 1,
          tcpError |-> FALSE]

OnePeer == <<[host |-> TRUE, port |-> TRUE]>>
BadPeer == <<[host |-> TRUE, port |-> FALSE]>>

NoHttp == [Nothing EXCEPT !["http"] = "0"]

\* Options that name a peer, whose host is not found; one io thread besides
\* main, no HTTP.
Peered == [Basic EXCEPT !.options.peers = OnePeer \o BadPeer, !.options.set = NoHttp,
                        !.resolveError = TRUE]

MCScenarios ==
    { Peered,
      \* two subscribers on main's thread alone
      [Peered EXCEPT !.options.set["threads"] = 0, !.subscribers = 2],
      [Peered EXCEPT !.options.set["threads"] = 0, !.notifierError = TRUE],
      \* peers from the environment, the second host is missing
      [Basic EXCEPT !.env = [hosts |-> {0, 2}, ports |-> {0, 1, 2},
                             set |-> [Nothing EXCEPT !["dir"] = "/tmp/", !["threads"] = 0]],
                    !.connections = 0],
      \* a file and options besides it
      [Basic EXCEPT !.options.file = TRUE, !.options.set = [NoHttp EXCEPT !["threads"] = 0],
                    !.file.set = [Nothing EXCEPT !["level"] = "warn", !["threads"] = 0]],
      [Peered EXCEPT !.options.file = TRUE, !.file.set = NoHttp,
                     !.env.set["level"] = "loud"],
      [Basic EXCEPT !.options.file = TRUE, !.file.error = TRUE],
      [Basic EXCEPT !.options.error = TRUE],
      [Basic EXCEPT !.dbError = TRUE],
      [Basic EXCEPT !.tcpError = TRUE],
      [Basic EXCEPT !.httpError = TRUE],
      \* days pass, backups succeed or fail
      [Basic EXCEPT !.options.set = NoHttp, !.days = 3, !.tcpError = TRUE],
      [Basic EXCEPT !.options.set = NoHttp, !.days = 2, !.tcpError = TRUE,
                    !.backupError = TRUE] }
=============================================================================
