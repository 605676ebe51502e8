# YJC

The thread pool and its parts. The thread pool and its parts. The thread pool and its parts. The thread pool and its parts. The thread pool and its parts. The thread pool and its parts. The thread pool and its parts. The thread pool and its parts. The thread pool and its parts. The thread pool and its parts. The thread pool and its parts. The thread pool and its parts. The thread pool and its parts. The thread pool and its parts. The thread pool and its parts. The thread pool and its parts. The thread pool and its parts. The thread pool and its parts. The thread pool and its parts. The thread pool and its parts. The thread pool and its parts. The thread pool and its parts. The thread pool and its parts. The thread pool and its parts. The thread pool and its parts. The thread pool and its parts. The thread pool and its parts. The thread pool and its parts. The thread pool and its parts. The thread pool and its parts. The thread pool and its parts. The thread pool and its parts. The thread pool and its parts. The thread pool and its parts. The thread pool and its parts. The thread pool and its parts. The thread pool and its parts. The thread pool and its parts. The thread pool and its parts. The thread pool and its parts. The thread pool and its parts. The thread pool and its parts. The thread pool and its parts. The thread pool and its parts. The thread pool and its parts. The thread pool and its parts. The thread pool and its parts. The thread pool and its parts. The thread pool and its parts. The thread pool and its parts. The thread pool and its parts. The thread pool and its parts. The thread pool and its parts. The thread pool and its parts. The thread pool and its parts. The thread pool and its parts. The thread pool and its parts. The thread pool and its parts. The thread pool and its parts. The thread pool and its parts. The thread pool and its parts. The thread pool and its parts. The thread pool and its parts. The thread pool and its parts. The thread pool and its parts. The thread pool and its parts. The thread pool and its parts. The thread pool and its parts. The thread pool and its parts. The thread pool and its parts. The thread pool and its parts. The thread pool and its parts. The thread pool and its parts. The thread pool and its parts. The thread pool and its parts. The thread pool and its parts. The thread pool and its parts. The thread pool and its parts. The thread pool and its parts. The thread pool and its parts. The thread pool and its parts. The thread pool and its parts. The thread pool and its parts. The thread pool and its parts. The thread pool and its parts. The thread pool and its parts. The thread pool and its parts. The thread pool and its parts. The thread pool and its parts. The thread pool and its parts. The thread pool and its parts. The thread pool and its parts. The thread pool and its parts. The thread pool and its parts. The thread pool and its parts. The thread pool and its parts. The thread pool and its parts. The thread pool and its parts. The thread pool and its parts. The thread pool and its parts. The thread pool and its parts. The thread pool and its parts. The thread pool and its parts. The thread pool and its parts. The thread pool and its parts. The thread pool and its parts. The thread pool and its parts. The thread pool and its parts. The thread pool and its parts. The thread pool and its parts. The thread pool and its parts. The thread pool and its parts. The thread pool and its parts. The thread pool and its parts. The thread pool and its parts. The thread pool and its parts. The thread pool and its parts. The thread pool and its parts. The thread pool and its parts. The thread pool and its parts. The thread pool and its parts. The thread pool and its parts. The thread pool and its parts. The thread pool and its parts. The thread pool and its parts. The thread pool and its parts. The thread pool and its parts. The thread pool and its parts. The thread pool and its parts. The thread pool and its parts. The thread pool and its parts. The thread pool and its parts. The thread pool and its parts. The thread pool and its parts. The thread pool and its parts. The thread pool and its parts. The thread pool and its parts. The thread pool and its parts. The thread pool and its parts. The thread pool and its parts. The thread pool and its parts. The thread pool and its parts. The thread pool and its parts. The thread pool and its parts. The thread pool and its parts. The thread pool and its parts. The thread pool and its parts. The thread pool and its parts. The thread pool and its parts. The thread pool and its parts. The thread pool and its parts. The thread pool and its parts. The thread pool and its parts. The thread pool and its parts. The thread pool and its parts. The thread pool and its parts. The thread pool and its parts. The thread pool and its parts. The thread pool and its parts. The thread pool and its parts. The thread pool and its parts. The thread pool and its parts. The thread pool and its parts. The thread pool and its parts. The thread pool and its parts. The thread pool and its parts. The thread pool and its parts. The thread pool and its parts. The thread pool and its parts. The thread pool and its parts. The thread pool and its parts. The thread pool and its parts. The thread pool and its parts. The thread pool and its parts. The thread pool and its parts. The thread pool and its parts. The thread pool and its parts. The thread pool and its parts. The thread pool and its parts. The thread pool and its parts. The thread pool and its parts. The thread pool and its parts. The thread pool and its parts. The thread pool and its parts. The thread pool and its parts. The thread pool and its parts. The thread pool and its parts. The thread pool and its parts. The thread pool and its parts. The thread pool and its parts. The thread pool and its parts. The thread pool and its parts. The thread pool and its parts. The thread pool and its parts. The thread pool and its parts. The thread pool and its parts. The thread pool and its parts. The thread pool and its parts. The thread pool and its parts. The thread pool and its parts. 
