-------------------------- MODULE MCNative2Amiga ----------------------------
(* The threads of uaescsi.device (ReplyMsg) and of bsdsocket.library       *)
(* (Signal), on a pipe that one call fills.                                *)
EXTENDS Native2Amiga
CONSTANTS scsi, sock, req1, req2, task, mask, port

OneThread == {sock}
TwoThreads == {scsi, sock}

MCWords == Opcodes \cup {req1, req2, task, mask, port}

SockCalls == << <<"Signal", task, mask>>, <<"ReplyMsg", req1>>,
                <<"PutMsg", port, req2>> >>

OneThreadCalls == (sock :> SockCalls)
TwoThreadCalls == (scsi :> << <<"ReplyMsg", req1>> >>)
                  @@ (sock :> << <<"Signal", task, mask>> >>)
=============================================================================
