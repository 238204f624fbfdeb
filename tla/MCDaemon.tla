------------------------------ MODULE MCDaemon ------------------------------
EXTENDS Daemon

Ipc(do) == [via |-> "ipc", do |-> do]
Http(method, path, login, secret) ==
    [via |-> "http", method |-> method, path |-> path, login |-> login, secret |-> secret]

MCRequests ==
    {Ipc("read"), Ipc("change"), Ipc("shutdown"),
     Http("POST", "api", FALSE, NONE), Http("GET", "stream", TRUE, NONE)}
=============================================================================
