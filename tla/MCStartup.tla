----------------------------- MODULE MCStartup ------------------------------
(* Startup for TLC: command lines put together from a few choices for each *)
(* group of options.  TLC computes with 32 bits itself: an int has 19 here *)
(* and an unsigned long 24, and lines that share objects have a small      *)
(* liveness.                                                               *)
EXTENDS Startup

MCThreads == {<< >>, << <<"num_threads", 2>> >>, << <<"num_threads", 3>> >>, << <<"num_threads", 0>> >>}

MCLiveness ==
  {<< <<"max_liveness", 1>>, <<"time_quantum", 4000>> >>,
   << <<"time_quantum", 55000>>, <<"max_liveness", 2>> >>,
   << <<"min_liveness", 2>>, <<"max_liveness", 3>>, <<"time_quantum", 30000>>, <<"deallocation_delay", 2>> >>,
   << <<"max_liveness", 3>>, <<"time_quantum", 100>> >>}

MCSizeClasses ==
  {<< >>, << <<"max_object_sc", 5>> >>, << <<"min_object_sc", 5>>, <<"max_object_sc", 6>> >>}

MCSharing ==
  {<< >>,
   << <<"shared_objects", TRUE>> >>,
   << <<"shared_objects", TRUE>>, <<"shared_objects_ratio", 100>>, <<"max_time_gap", 1>> >>,
   << <<"max_time_gap", 0>>, <<"receiving_threads_ratio", 50>>, <<"shared_objects", TRUE>> >>}

MCBuffers ==
  {<< >>,
   << <<"metadata_heap_sz", 1>>, <<"node_buffer_size", 1>>, <<"class_buffer_size", 2>> >>,
   << <<"metadata_heap_sz", 1>>, <<"node_buffer_size", 9000>>, <<"class_buffer_size", 3000>> >>,
   << <<"node_buffer_size", 9>> >>}

MCOthers ==
  {<< <<"max_liveness", 10>>, <<"allocator_name", "nulloc">> >>,
   << <<"allocator_name", "compact">>, <<"access_live_objects", TRUE>> >>,
   << <<"max_liveness", 2>>, <<"mode", "FS">>, <<"time_quantum", 20000>> >>,
   << <<"mode", "FS">>, <<"mode", "ACDC">>, <<"max_liveness", 9>>, <<"time_quantum", 262144>> >>,
   << <<"num_threads", 20000>>, <<"metadata_heap_sz", 1>>, <<"node_buffer_size", 1>>, <<"class_buffer_size", 1>> >>,
   << <<"deallocation_delay", 100000>> >>,
   << <<"min_object_sc", 4>>, <<"max_object_sc", 2>> >>,
   << <<"list_based_ratio", 101>> >>,
   << <<"help", TRUE>> >>}

(* Accepted, but what the estimate computes does not fit an int: the shift *)
(* makes the size of a class negative (the buffers huge, or without an     *)
(* entry; -s 30 -S 32 where ints have 32 bits); the cast gives the least   *)
(* int, which the doubling makes 0 (-t 1000000000000); the doubling gives  *)
(* -4; a ratio times the number of threads wraps around.                   *)
SmallestClass == << <<"max_liveness", 1>>, <<"min_object_sc", 0>>, <<"max_object_sc", 1>> >>

MCOverflows ==
  {<< <<"min_object_sc", 17>>, <<"max_object_sc", 19>> >>,
   << <<"min_object_sc", 17>>, <<"max_object_sc", 19>>, <<"time_quantum", 30000>> >>,
   << <<"min_object_sc", 19>>, <<"max_object_sc", 20>> >>,
   << <<"time_quantum", 500000>> >> \o SmallestClass,
   << <<"time_quantum", 442366>> >> \o SmallestClass,
   << <<"num_threads", 3>>, <<"shared_objects", TRUE>>, <<"shared_objects_ratio", 100000>>,
      <<"receiving_threads_ratio", 10>>, <<"time_quantum", 4>> >> \o SmallestClass,
   << <<"num_threads", 3>>, <<"shared_objects", TRUE>>, <<"receiving_threads_ratio", 100000>>,
      <<"time_quantum", 4>> >> \o SmallestClass}

MCCommandLines ==
  {threads \o liveness \o sizes \o sharing \o buffers :
     threads \in MCThreads, liveness \in MCLiveness, sizes \in MCSizeClasses,
     sharing \in MCSharing, buffers \in MCBuffers}
    \cup {threads \o others : threads \in MCThreads, others \in MCOthers}
    \cup MCOverflows
=============================================================================
