----------------------------- MODULE MCEventLoop -----------------------------
(* TLC instance of LoopThread, with the loop of EventLoop: the owner and    *)
(* another thread, three functors and one I/O channel; the eventfd saturates*)
(* at 2.                                                                    *)
EXTENDS LoopThread, TLC

CONSTANTS p1, p2, f1, f2, f3, io1, wakeupChannel

MCThreads == {p1, p2}
MCTasks == {f1, f2, f3}
MCIoChannels == {io1}
=============================================================================
