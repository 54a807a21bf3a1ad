---------------------------- MODULE MCEventLoop ----------------------------
(***************************************************************************)
(* What the client of EventLoop does, one kind of use at a time.           *)
(***************************************************************************)
EXTENDS EventLoop

Use(apis, calls, ops, fails, fds, delays, skews) ==
    [apis |-> apis, calls |-> calls, ops |-> ops, fails |-> fails, fds |-> fds,
     delays |-> delays, skews |-> skews]

MCLoads == { Use(Apis, 3, {"file", "resize"}, TRUE, {0, 1}, {}, {}),
             Use(Apis, 4, {"file", "reopen"}, FALSE, {0, 1}, {}, {}),
             Use({"epoll"}, 2, {"file", "timer", "stop"}, FALSE, {0}, {0, 2}, {}),
             Use({"epoll"}, 3, {"timer"}, FALSE, {}, {2, 4}, {}),
             Use({"epoll"}, 2, {"timer"}, FALSE, {}, {1, 4}, {3, -2, -4}) }
=============================================================================
