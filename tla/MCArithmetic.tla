---------------------------- MODULE MCArithmetic ----------------------------
(***************************************************************************)
(* All the sums of the program in one instance: the pairing loop of        *)
(* MCDebtLoop, and, in the behaviours whose balances are all zero and leave *)
(* the loop nothing to do, the calls of MCSplitMath, MCImportMath and      *)
(* MCSummary and the token buckets of ScanLimit.                           *)
(***************************************************************************)
EXTENDS MCDebtLoop, ScanLimit, MCSummary

NothingOwed == \A u \in Users : input.net[u] = 0

NothingScanned ==
  /\ limit = NewScanRateLimiterFromEnv(0, 0)
  /\ start = 0 /\ now = 0
  /\ bucket = [u \in Scanners |-> NoBucket]

ArithmeticInit ==
  /\ Init /\ SplitInit
  /\ LimitInit
  /\ ~NothingOwed => NothingScanned

ArithmeticNext ==
  \/ Next /\ UNCHANGED <<call, result, limitVars>>
  \/ NothingOwed /\ NothingScanned /\ SummaryNext /\ UNCHANGED <<vars, limitVars>>
  \/ NothingOwed /\ call = Idle /\ LimitNext /\ UNCHANGED <<vars, call, result>>

ArithmeticSpec ==
  /\ ArithmeticInit
  /\ [][ArithmeticNext]_<<vars, call, result, limitVars>>
  /\ WF_vars(Next)

=============================================================================
