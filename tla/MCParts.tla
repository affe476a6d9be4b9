------------------------------ MODULE MCParts -------------------------------
(* Four parts small enough to share a run: the echo programs over TCP,      *)
(* those over UDP, the bit arithmetic, and a thread pool of one worker and  *)
(* a ring of one.  They never meet: a behaviour is one of the four, the     *)
(* others being at rest, where none of them can take a step.                *)
EXTENDS TcpEcho, UdpEcho, BitArith

CONSTANTS Callers, Tasks, NoTask

VARIABLES
  task_queue, queue_front, queue_rear, queue_size,
  live_thr_num, busy_thr_num, wait_exit_thr_num,
  shutdown, lock, wpc, wtask, callerpc, ctask, todo, apc, seen, signals, dpc, di, done

poolvars ==
  <<task_queue, queue_front, queue_rear, queue_size,
    live_thr_num, busy_thr_num, wait_exit_thr_num,
    shutdown, lock, wpc, wtask, callerpc, ctask, todo, apc, seen, signals, dpc, di, done>>

(* TcpEcho has a variable cpc of its own, its clients'.                     *)
Pool == INSTANCE ThreadPool WITH
  MinThr <- 1, MaxThr <- 1, QueueMax <- 1, MinWaitTaskNum <- 1, ThreadVary <- 1,
  cpc <- callerpc

(* ThreadPool's property: a blocked caller returns, here two of them        *)
(* contending for the one entry that threadpool_add fills (344 to 357).     *)
BlockedCallerReturns == Pool!BlockedCallerReturns

(* After a crash in a join (290) the pool takes no step.                    *)
PoolRests ==
  /\ task_queue = [i \in {0} |-> NoTask] /\ queue_front = 0 /\ queue_rear = 0 /\ queue_size = 0
  /\ live_thr_num = 1 /\ busy_thr_num = 0 /\ wait_exit_thr_num = 0
  /\ shutdown = TRUE /\ lock = -1
  /\ wpc = [w \in {0} |-> "stopped"] /\ wtask = [w \in {0} |-> NoTask]
  /\ callerpc = [c \in Callers |-> "idle"] /\ ctask = [c \in Callers |-> NoTask]
  /\ todo = Tasks /\ apc = "exited" /\ seen = Pool!NothingSeen /\ signals = 0
  /\ dpc = "crashed" /\ di = 0 /\ done = {}

EchoRests ==
  /\ style = "tcp" /\ spc = "accept" /\ alive = FALSE
  /\ clnt_sock = Nobody /\ served = 0 /\ message = <<>>
  /\ ready = {} /\ watched = {} /\ fds = [f \in Fds |-> Nobody] /\ fd_max = Listener
  /\ program = Each("echo") /\ conn = Each("away") /\ cpc = Each("types")
  /\ said = Each(0) /\ up = Each(<<>>) /\ down = Each(<<>>) /\ got = Each(<<>>)

UdpRests ==
  /\ duplicates = FALSE /\ requests = {} /\ answers = {} /\ lost = {}
  /\ open = TRUE /\ stale = FALSE
  /\ where = [c \in Peers |-> "quit"] /\ sent = [c \in Peers |-> 0]
  /\ replies = [c \in Peers |-> <<>>]

BitRests ==
  /\ op = "mul" /\ at = "done" /\ arg1 = {} /\ arg2 = {} /\ sum0 = {} /\ x = {} /\ y = {}
  /\ res = {} /\ temp = {} /\ count = 1 /\ shift = 0 /\ fuhao = 0 /\ adder1 = {} /\ adder2 = {}

PartsInit ==
  \/ EchoInit /\ UdpRests /\ BitRests /\ PoolRests
  \/ UdpInit /\ EchoRests /\ BitRests /\ PoolRests
  \/ BitInit /\ EchoRests /\ UdpRests /\ PoolRests
  \/ Pool!Init /\ EchoRests /\ UdpRests /\ BitRests

PartsNext ==
  \/ EchoNext /\ UNCHANGED <<udpvars, bitvars, poolvars>>
  \/ UdpNext /\ UNCHANGED <<echovars, bitvars, poolvars>>
  \/ BitNext /\ UNCHANGED <<echovars, udpvars, poolvars>>
  \/ Pool!Next /\ UNCHANGED <<echovars, udpvars, bitvars>>

PartsSpec ==
  /\ PartsInit /\ [][PartsNext]_<<echovars, udpvars, bitvars, poolvars>>
  /\ EchoFairness /\ UdpFairness /\ BitFairness /\ Pool!Fairness
=============================================================================
