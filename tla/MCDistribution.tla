--------------------------- MODULE MCDistribution ---------------------------
(* Distribution for TLC: ten thousand draws from extreme seeds.            *)
EXTENDS Distribution

(* 0, the ends of int and of the period, and multiples of 127773.          *)
MCSeeds == {1, 2, -1, 0, 127773, -127773, 127772, IntMax, IntMax - 1, -IntMax,
            -IntMax - 1, 1043618065}

MCDefaults ==
  [min_liveness |-> 1, max_liveness |-> 10, min_object_sc |-> 4, max_object_sc |-> 8,
   fixed_number_of_objects |-> 0, list_based_ratio |-> 50, use_compact_allocation |-> FALSE,
   shared_objects |-> TRUE, shared_objects_ratio |-> 100, receiving_threads_ratio |-> 50]

(* Ratios that divide 100 and ratios that do not; objects that are drawn   *)
(* smaller than links are; a fixed number of them; livenesses for which    *)
(* the number of objects wraps around, also to 0.                          *)
MCOptions ==
  {MCDefaults,
   [MCDefaults EXCEPT !.receiving_threads_ratio = 33],
   [MCDefaults EXCEPT !.receiving_threads_ratio = 60],
   [MCDefaults EXCEPT !.min_object_sc = 0, !.max_object_sc = 5,
                      !.use_compact_allocation = TRUE, !.shared_objects_ratio = 50,
                      !.receiving_threads_ratio = 20],
   [MCDefaults EXCEPT !.min_object_sc = 3, !.fixed_number_of_objects = 7,
                      !.shared_objects = FALSE],
   [MCDefaults EXCEPT !.max_liveness = 300],
   [MCDefaults EXCEPT !.fixed_number_of_objects = 7, !.max_liveness = 256]}

(* The smallest sizes that can be asked for.                               *)
MCSmallSizes == {[MCDefaults EXCEPT !.min_object_sc = 3, !.max_object_sc = 4]}
=============================================================================
