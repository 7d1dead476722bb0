------------------------------- MODULE MCSender --------------------------------
(* The kernel event service (Kevent) with one caller and one client: small  *)
(* enough for a liveness property, which Kevent states of every sender.     *)

VARIABLES module, pmReg, fbReg, devmgrClnt, clientList, waitList, waitCount, comp, leaked,
          pc, token, result, seen, inbox, misled, chain, power

seVars == <<module, pmReg, fbReg, devmgrClnt, clientList, waitList, waitCount, comp, leaked,
            pc, token, result, seen, inbox, misled, chain, power>>

KE == INSTANCE Kevent WITH
        Callers <- {"caller"}, Clients <- {"client"}, Tokens <- {"token"}, NoToken <- "0",
        MaxPending <- 1, Wrap <- 16, DevmgrFirst <- TRUE

(* A sender of a kernel event returns whatever its client does              *)
(* (Kevent!SenderReturns): SendKevent's wait has a limit of five seconds.   *)
SenderReturns == KE!SenderReturns
==============================================================================
