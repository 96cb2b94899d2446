\* Three callbacks and three threads: enough for a body that destroys its own
\* callback or its successor in the detached chain while another thread
\* destroys a third one or registers late.
SPECIFICATION FairSpec
CONSTANTS
  Callbacks = {c1, c2, c3}
  Threads = {t1, t2, t3}
  NoThread = NoThread
  NoCallback = NoCallback
INVARIANTS IndInv NoLostCallback
PROPERTIES ImplementsContract NobodyHangs
CHECK_DEADLOCK FALSE
